---- MODULE Spec2Model ----
(***************************************************************************)
(* FlexiFlight: the requirement interpretation pipeline                    *)
(* (tools/requirement_interpreter.py), the search parameter record         *)
(* (models/serp.py) and the cached provider search                         *)
(* (tools/search_flights.py, clients/redis.py).                            *)
(*                                                                         *)
(* Text is modelled as a sequence of one-character strings, so that        *)
(* lower(), strip(), split(','), substring tests and character classes     *)
(* are computed and not assumed.  An Optional value is None == <<>> or     *)
(* Some(v) == <<v>>.                                                       *)
(***************************************************************************)
EXTENDS Integers, Sequences, FiniteSets, TLC

None == <<>>
Some(v) == <<v>>
IsNone(o) == Len(o) = 0
Val(o) == o[1]

(***************************************************************************)
(* Bounds of the exploration.                                              *)
(***************************************************************************)
MaxTime == 2

(***************************************************************************)
(* Character classes of str.isupper / str.isalpha / str.lower / str.upper  *)
(***************************************************************************)
\* A text is a sequence of characters, each a one-character string; a
\* character that is not printable ASCII is written by its code point,
\* "U+00C9", and so are the double quote, the backslash and the backquote.  The characters of the model are Chars: U+0000..U+017F (Basic
\* Latin, Latin-1 Supplement, Latin Extended-A), every character
\* str.isspace() holds for, U+0307, U+212A, U+FB01, U+6771, U+4EAC, U+90FD,
\* and the characters str.lower() and str.upper() lead to from those (U+02BC,
\* U+039C, U+03BC).  The tables below are the values of str.isupper(),
\* str.islower(), str.isalpha(), str.isspace(), str.lower() and str.upper()
\* on each of them; no character of Chars is titlecase, and none has a
\* lower() or upper() that depends on its neighbours.  The functions are
\* defined on texts over Chars only.
\* the characters str.isupper() holds for
UpperChars ==
    {"A", "B", "C", "D", "E", "F", "G", "H", "I", "J", "K", "L", "M", "N",
     "O", "P", "Q", "R", "S", "T", "U", "V", "W", "X", "Y", "Z", "U+00C0",
     "U+00C1", "U+00C2", "U+00C3", "U+00C4", "U+00C5", "U+00C6", "U+00C7",
     "U+00C8", "U+00C9", "U+00CA", "U+00CB", "U+00CC", "U+00CD", "U+00CE",
     "U+00CF", "U+00D0", "U+00D1", "U+00D2", "U+00D3", "U+00D4", "U+00D5",
     "U+00D6", "U+00D8", "U+00D9", "U+00DA", "U+00DB", "U+00DC", "U+00DD",
     "U+00DE", "U+0100", "U+0102", "U+0104", "U+0106", "U+0108", "U+010A",
     "U+010C", "U+010E", "U+0110", "U+0112", "U+0114", "U+0116", "U+0118",
     "U+011A", "U+011C", "U+011E", "U+0120", "U+0122", "U+0124", "U+0126",
     "U+0128", "U+012A", "U+012C", "U+012E", "U+0130", "U+0132", "U+0134",
     "U+0136", "U+0139", "U+013B", "U+013D", "U+013F", "U+0141", "U+0143",
     "U+0145", "U+0147", "U+014A", "U+014C", "U+014E", "U+0150", "U+0152",
     "U+0154", "U+0156", "U+0158", "U+015A", "U+015C", "U+015E", "U+0160",
     "U+0162", "U+0164", "U+0166", "U+0168", "U+016A", "U+016C", "U+016E",
     "U+0170", "U+0172", "U+0174", "U+0176", "U+0178", "U+0179", "U+017B",
     "U+017D", "U+039C", "U+212A"}
\* the characters str.islower() holds for
LowerChars ==
    {"a", "b", "c", "d", "e", "f", "g", "h", "i", "j", "k", "l", "m", "n",
     "o", "p", "q", "r", "s", "t", "u", "v", "w", "x", "y", "z", "U+00AA",
     "U+00B5", "U+00BA", "U+00DF", "U+00E0", "U+00E1", "U+00E2", "U+00E3",
     "U+00E4", "U+00E5", "U+00E6", "U+00E7", "U+00E8", "U+00E9", "U+00EA",
     "U+00EB", "U+00EC", "U+00ED", "U+00EE", "U+00EF", "U+00F0", "U+00F1",
     "U+00F2", "U+00F3", "U+00F4", "U+00F5", "U+00F6", "U+00F8", "U+00F9",
     "U+00FA", "U+00FB", "U+00FC", "U+00FD", "U+00FE", "U+00FF", "U+0101",
     "U+0103", "U+0105", "U+0107", "U+0109", "U+010B", "U+010D", "U+010F",
     "U+0111", "U+0113", "U+0115", "U+0117", "U+0119", "U+011B", "U+011D",
     "U+011F", "U+0121", "U+0123", "U+0125", "U+0127", "U+0129", "U+012B",
     "U+012D", "U+012F", "U+0131", "U+0133", "U+0135", "U+0137", "U+0138",
     "U+013A", "U+013C", "U+013E", "U+0140", "U+0142", "U+0144", "U+0146",
     "U+0148", "U+0149", "U+014B", "U+014D", "U+014F", "U+0151", "U+0153",
     "U+0155", "U+0157", "U+0159", "U+015B", "U+015D", "U+015F", "U+0161",
     "U+0163", "U+0165", "U+0167", "U+0169", "U+016B", "U+016D", "U+016F",
     "U+0171", "U+0173", "U+0175", "U+0177", "U+017A", "U+017C", "U+017E",
     "U+017F", "U+03BC", "U+FB01"}
\* the characters str.isalpha() holds for that have no case
OtherLetters == {"U+02BC", "U+4EAC", "U+6771", "U+90FD"}
\* the characters str.strip() removes: those str.isspace() holds for
SpaceChars ==
    {"\t", "\n", "U+000B", "\f", "\r", "U+001C", "U+001D", "U+001E",
     "U+001F", " ", "U+0085", "U+00A0", "U+1680", "U+2000", "U+2001",
     "U+2002", "U+2003", "U+2004", "U+2005", "U+2006", "U+2007", "U+2008",
     "U+2009", "U+200A", "U+2028", "U+2029", "U+202F", "U+205F", "U+3000"}
\* the digits, the punctuation, the controls and the marks
OtherChars ==
    {"U+0000", "U+0001", "U+0002", "U+0003", "U+0004", "U+0005", "U+0006",
     "U+0007", "U+0008", "U+000E", "U+000F", "U+0010", "U+0011", "U+0012",
     "U+0013", "U+0014", "U+0015", "U+0016", "U+0017", "U+0018", "U+0019",
     "U+001A", "U+001B", "!", "U+0022", "#", "$", "%", "&", "'", "(", ")",
     "*", "+", ",", "-", ".", "/", "0", "1", "2", "3", "4", "5", "6", "7",
     "8", "9", ":", ";", "<", "=", ">", "?", "@", "[", "U+005C", "]", "^",
     "_", "U+0060", "{", "|", "}", "~", "U+007F", "U+0080", "U+0081",
     "U+0082", "U+0083", "U+0084", "U+0086", "U+0087", "U+0088", "U+0089",
     "U+008A", "U+008B", "U+008C", "U+008D", "U+008E", "U+008F", "U+0090",
     "U+0091", "U+0092", "U+0093", "U+0094", "U+0095", "U+0096", "U+0097",
     "U+0098", "U+0099", "U+009A", "U+009B", "U+009C", "U+009D", "U+009E",
     "U+009F", "U+00A1", "U+00A2", "U+00A3", "U+00A4", "U+00A5", "U+00A6",
     "U+00A7", "U+00A8", "U+00A9", "U+00AB", "U+00AC", "U+00AD", "U+00AE",
     "U+00AF", "U+00B0", "U+00B1", "U+00B2", "U+00B3", "U+00B4", "U+00B6",
     "U+00B7", "U+00B8", "U+00B9", "U+00BB", "U+00BC", "U+00BD", "U+00BE",
     "U+00BF", "U+00D7", "U+00F7", "U+0307"}
Chars ==
    UpperChars \cup LowerChars \cup OtherLetters \cup SpaceChars
        \cup OtherChars
\* the uppercase characters, and the text str.lower() gives for each
UpperSeq ==
    <<"A", "B", "C", "D", "E", "F", "G", "H", "I", "J", "K", "L", "M", "N",
      "O", "P", "Q", "R", "S", "T", "U", "V", "W", "X", "Y", "Z", "U+00C0",
      "U+00C1", "U+00C2", "U+00C3", "U+00C4", "U+00C5", "U+00C6", "U+00C7",
      "U+00C8", "U+00C9", "U+00CA", "U+00CB", "U+00CC", "U+00CD", "U+00CE",
      "U+00CF", "U+00D0", "U+00D1", "U+00D2", "U+00D3", "U+00D4", "U+00D5",
      "U+00D6", "U+00D8", "U+00D9", "U+00DA", "U+00DB", "U+00DC", "U+00DD",
      "U+00DE", "U+0100", "U+0102", "U+0104", "U+0106", "U+0108", "U+010A",
      "U+010C", "U+010E", "U+0110", "U+0112", "U+0114", "U+0116", "U+0118",
      "U+011A", "U+011C", "U+011E", "U+0120", "U+0122", "U+0124", "U+0126",
      "U+0128", "U+012A", "U+012C", "U+012E", "U+0130", "U+0132", "U+0134",
      "U+0136", "U+0139", "U+013B", "U+013D", "U+013F", "U+0141", "U+0143",
      "U+0145", "U+0147", "U+014A", "U+014C", "U+014E", "U+0150", "U+0152",
      "U+0154", "U+0156", "U+0158", "U+015A", "U+015C", "U+015E", "U+0160",
      "U+0162", "U+0164", "U+0166", "U+0168", "U+016A", "U+016C", "U+016E",
      "U+0170", "U+0172", "U+0174", "U+0176", "U+0178", "U+0179", "U+017B",
      "U+017D", "U+039C", "U+212A">>
LowerOfUpper ==
    <<<<"a">>, <<"b">>, <<"c">>, <<"d">>, <<"e">>, <<"f">>, <<"g">>,
      <<"h">>, <<"i">>, <<"j">>, <<"k">>, <<"l">>, <<"m">>, <<"n">>,
      <<"o">>, <<"p">>, <<"q">>, <<"r">>, <<"s">>, <<"t">>, <<"u">>,
      <<"v">>, <<"w">>, <<"x">>, <<"y">>, <<"z">>, <<"U+00E0">>,
      <<"U+00E1">>, <<"U+00E2">>, <<"U+00E3">>, <<"U+00E4">>, <<"U+00E5">>,
      <<"U+00E6">>, <<"U+00E7">>, <<"U+00E8">>, <<"U+00E9">>, <<"U+00EA">>,
      <<"U+00EB">>, <<"U+00EC">>, <<"U+00ED">>, <<"U+00EE">>, <<"U+00EF">>,
      <<"U+00F0">>, <<"U+00F1">>, <<"U+00F2">>, <<"U+00F3">>, <<"U+00F4">>,
      <<"U+00F5">>, <<"U+00F6">>, <<"U+00F8">>, <<"U+00F9">>, <<"U+00FA">>,
      <<"U+00FB">>, <<"U+00FC">>, <<"U+00FD">>, <<"U+00FE">>, <<"U+0101">>,
      <<"U+0103">>, <<"U+0105">>, <<"U+0107">>, <<"U+0109">>, <<"U+010B">>,
      <<"U+010D">>, <<"U+010F">>, <<"U+0111">>, <<"U+0113">>, <<"U+0115">>,
      <<"U+0117">>, <<"U+0119">>, <<"U+011B">>, <<"U+011D">>, <<"U+011F">>,
      <<"U+0121">>, <<"U+0123">>, <<"U+0125">>, <<"U+0127">>, <<"U+0129">>,
      <<"U+012B">>, <<"U+012D">>, <<"U+012F">>, <<"i","U+0307">>,
      <<"U+0133">>, <<"U+0135">>, <<"U+0137">>, <<"U+013A">>, <<"U+013C">>,
      <<"U+013E">>, <<"U+0140">>, <<"U+0142">>, <<"U+0144">>, <<"U+0146">>,
      <<"U+0148">>, <<"U+014B">>, <<"U+014D">>, <<"U+014F">>, <<"U+0151">>,
      <<"U+0153">>, <<"U+0155">>, <<"U+0157">>, <<"U+0159">>, <<"U+015B">>,
      <<"U+015D">>, <<"U+015F">>, <<"U+0161">>, <<"U+0163">>, <<"U+0165">>,
      <<"U+0167">>, <<"U+0169">>, <<"U+016B">>, <<"U+016D">>, <<"U+016F">>,
      <<"U+0171">>, <<"U+0173">>, <<"U+0175">>, <<"U+0177">>, <<"U+00FF">>,
      <<"U+017A">>, <<"U+017C">>, <<"U+017E">>, <<"U+03BC">>, <<"k">>>>
\* the lowercase characters, and the text str.upper() gives for each
LowerSeq ==
    <<"a", "b", "c", "d", "e", "f", "g", "h", "i", "j", "k", "l", "m", "n",
      "o", "p", "q", "r", "s", "t", "u", "v", "w", "x", "y", "z", "U+00AA",
      "U+00B5", "U+00BA", "U+00DF", "U+00E0", "U+00E1", "U+00E2", "U+00E3",
      "U+00E4", "U+00E5", "U+00E6", "U+00E7", "U+00E8", "U+00E9", "U+00EA",
      "U+00EB", "U+00EC", "U+00ED", "U+00EE", "U+00EF", "U+00F0", "U+00F1",
      "U+00F2", "U+00F3", "U+00F4", "U+00F5", "U+00F6", "U+00F8", "U+00F9",
      "U+00FA", "U+00FB", "U+00FC", "U+00FD", "U+00FE", "U+00FF", "U+0101",
      "U+0103", "U+0105", "U+0107", "U+0109", "U+010B", "U+010D", "U+010F",
      "U+0111", "U+0113", "U+0115", "U+0117", "U+0119", "U+011B", "U+011D",
      "U+011F", "U+0121", "U+0123", "U+0125", "U+0127", "U+0129", "U+012B",
      "U+012D", "U+012F", "U+0131", "U+0133", "U+0135", "U+0137", "U+0138",
      "U+013A", "U+013C", "U+013E", "U+0140", "U+0142", "U+0144", "U+0146",
      "U+0148", "U+0149", "U+014B", "U+014D", "U+014F", "U+0151", "U+0153",
      "U+0155", "U+0157", "U+0159", "U+015B", "U+015D", "U+015F", "U+0161",
      "U+0163", "U+0165", "U+0167", "U+0169", "U+016B", "U+016D", "U+016F",
      "U+0171", "U+0173", "U+0175", "U+0177", "U+017A", "U+017C", "U+017E",
      "U+017F", "U+03BC", "U+FB01">>
UpperOfLower ==
    <<<<"A">>, <<"B">>, <<"C">>, <<"D">>, <<"E">>, <<"F">>, <<"G">>,
      <<"H">>, <<"I">>, <<"J">>, <<"K">>, <<"L">>, <<"M">>, <<"N">>,
      <<"O">>, <<"P">>, <<"Q">>, <<"R">>, <<"S">>, <<"T">>, <<"U">>,
      <<"V">>, <<"W">>, <<"X">>, <<"Y">>, <<"Z">>, <<"U+00AA">>,
      <<"U+039C">>, <<"U+00BA">>, <<"S","S">>, <<"U+00C0">>, <<"U+00C1">>,
      <<"U+00C2">>, <<"U+00C3">>, <<"U+00C4">>, <<"U+00C5">>, <<"U+00C6">>,
      <<"U+00C7">>, <<"U+00C8">>, <<"U+00C9">>, <<"U+00CA">>, <<"U+00CB">>,
      <<"U+00CC">>, <<"U+00CD">>, <<"U+00CE">>, <<"U+00CF">>, <<"U+00D0">>,
      <<"U+00D1">>, <<"U+00D2">>, <<"U+00D3">>, <<"U+00D4">>, <<"U+00D5">>,
      <<"U+00D6">>, <<"U+00D8">>, <<"U+00D9">>, <<"U+00DA">>, <<"U+00DB">>,
      <<"U+00DC">>, <<"U+00DD">>, <<"U+00DE">>, <<"U+0178">>, <<"U+0100">>,
      <<"U+0102">>, <<"U+0104">>, <<"U+0106">>, <<"U+0108">>, <<"U+010A">>,
      <<"U+010C">>, <<"U+010E">>, <<"U+0110">>, <<"U+0112">>, <<"U+0114">>,
      <<"U+0116">>, <<"U+0118">>, <<"U+011A">>, <<"U+011C">>, <<"U+011E">>,
      <<"U+0120">>, <<"U+0122">>, <<"U+0124">>, <<"U+0126">>, <<"U+0128">>,
      <<"U+012A">>, <<"U+012C">>, <<"U+012E">>, <<"I">>, <<"U+0132">>,
      <<"U+0134">>, <<"U+0136">>, <<"U+0138">>, <<"U+0139">>, <<"U+013B">>,
      <<"U+013D">>, <<"U+013F">>, <<"U+0141">>, <<"U+0143">>, <<"U+0145">>,
      <<"U+0147">>, <<"U+02BC","N">>, <<"U+014A">>, <<"U+014C">>,
      <<"U+014E">>, <<"U+0150">>, <<"U+0152">>, <<"U+0154">>, <<"U+0156">>,
      <<"U+0158">>, <<"U+015A">>, <<"U+015C">>, <<"U+015E">>, <<"U+0160">>,
      <<"U+0162">>, <<"U+0164">>, <<"U+0166">>, <<"U+0168">>, <<"U+016A">>,
      <<"U+016C">>, <<"U+016E">>, <<"U+0170">>, <<"U+0172">>, <<"U+0174">>,
      <<"U+0176">>, <<"U+0179">>, <<"U+017B">>, <<"U+017D">>, <<"S">>,
      <<"U+039C">>, <<"F","I">>>>
IndexIn(c, s) == CHOOSE i \in 1..Len(s) : s[i] = c
InSeq(c, s) == \E i \in 1..Len(s) : s[i] = c
\* the text str.lower() / str.upper() gives for one character
LowerChar(c) ==
    CASE c \in UpperChars -> LowerOfUpper[IndexIn(c, UpperSeq)]
      [] c \in Chars /\ c \notin UpperChars -> <<c>>
UpperChar(c) ==
    CASE c \in LowerChars -> UpperOfLower[IndexIn(c, LowerSeq)]
      [] c \in Chars /\ c \notin LowerChars -> <<c>>
RECURSIVE lower(_)
lower(s) == IF Len(s) = 0 THEN <<>> ELSE LowerChar(Head(s)) \o lower(Tail(s))
RECURSIVE upper(_)
upper(s) == IF Len(s) = 0 THEN <<>> ELSE UpperChar(Head(s)) \o upper(Tail(s))
\* at least one uppercase character and no lowercase one
isupper(s) == /\ \E i \in 1..Len(s) : s[i] \in UpperChars
              /\ \A i \in 1..Len(s) : s[i] \notin LowerChars
isalpha(s) ==
    /\ Len(s) > 0
    /\ \A i \in 1..Len(s) :
          s[i] \in UpperChars \cup LowerChars \cup OtherLetters

RECURSIVE lstrip(_)
lstrip(s) == IF Len(s) > 0 /\ s[1] \in SpaceChars THEN lstrip(Tail(s)) ELSE s
RECURSIVE rstrip(_)
rstrip(s) == IF Len(s) > 0 /\ s[Len(s)] \in SpaceChars
             THEN rstrip(SubSeq(s, 1, Len(s) - 1)) ELSE s
strip(s) == rstrip(lstrip(s))

Contains(hay, needle) ==
    \E i \in 0..(Len(hay) - Len(needle)) :
        \A j \in 1..Len(needle) : hay[i + j] = needle[j]

RECURSIVE split(_, _)
split(s, sep) ==
    IF \E i \in 1..Len(s) : s[i] = sep
    THEN LET i == CHOOSE k \in 1..Len(s) :
                      s[k] = sep /\ \A m \in 1..(k - 1) : s[m] # sep
         IN  <<SubSeq(s, 1, i - 1)>> \o split(SubSeq(s, i + 1, Len(s)), sep)
    ELSE <<s>>

RECURSIVE join(_, _)
join(parts, sep) ==
    IF Len(parts) = 0 THEN <<>>
    ELSE IF Len(parts) = 1 THEN parts[1]
    ELSE parts[1] \o <<sep>> \o join(Tail(parts), sep)

(***************************************************************************)
(* models/serp.py: GoogleFlightsSearchParams                               *)
(***************************************************************************)
\* the fields in the order of declaration (lines 42-127)
FieldOrder == <<"type", "departure_id", "arrival_id", "multi_city_json",
                "gl", "hl", "currency", "outbound_date", "return_date",
                "travel_class", "show_hidden", "exclude_basic",
                "deep_search", "adults", "children", "infants_in_seat",
                "infants_on_lap", "sort_by", "stops", "exclude_airlines",
                "include_airlines", "bags", "max_price", "outbound_times",
                "return_times", "emissions", "layover_duration",
                "exclude_conns", "max_duration", "departure_token",
                "booking_token", "no_cache", "async_", "zero_trace",
                "output", "json_restrictor">>
Fields == {FieldOrder[i] : i \in 1..Len(FieldOrder)}

\* the order json.dumps(sort_keys=True) gives the keys of the payload
SortedKeys == <<"adults", "arrival_id", "async_", "bags", "booking_token",
                "children", "currency", "deep_search", "departure_id",
                "departure_token", "emissions", "exclude_airlines",
                "exclude_basic", "exclude_conns", "gl", "hl",
                "include_airlines", "infants_in_seat", "infants_on_lap",
                "json_restrictor", "layover_duration", "max_duration",
                "max_price", "multi_city_json", "no_cache", "outbound_date",
                "outbound_times", "output", "return_date", "return_times",
                "show_hidden", "sort_by", "stops", "travel_class", "type",
                "zero_trace">>
KeyRank(f) == IndexIn(f, SortedKeys)

FieldDefault(f) ==
    CASE f = "gl" -> Some(<<"c","a">>)
      [] f = "hl" -> Some(<<"e","n">>)
      [] f = "currency" -> Some(<<"C","A","D">>)
      [] OTHER -> None

\* a keyword argument list is a sequence of <<field, optional value>>
\* the keyword a field is passed by: async_ is declared with alias="async"
\* (lines 119-123) and is set by that name only; a keyword that names no field
\* is ignored
KwName(f) == IF f = "async_" THEN "async" ELSE f
KwHas(kw, f) == \E i \in 1..Len(kw) : kw[i][1] = KwName(f)
KwGet(kw, f) == IF KwHas(kw, f)
                THEN kw[CHOOSE i \in 1..Len(kw) : kw[i][1] = KwName(f)][2]
                ELSE FieldDefault(f)

\* truthiness of an Optional[str]: None and "" are falsy
Truthy(o) == ~IsNone(o) /\ Len(Val(o)) > 0

validate_airline_filters_off(vals) == TRUE
validate_airline_filters(vals) ==
    ~(Truthy(vals["exclude_airlines"]) /\ Truthy(vals["include_airlines"]))

check_iata(o) ==
    IF IsNone(o) THEN TRUE
    ELSE LET v == Val(o)
             hasComma == \E i \in 1..Len(v) : v[i] = ","
         IN  IF ~hasComma
             THEN isupper(v) /\ Len(v) = 3
             ELSE LET codes == split(v, ",")
                  IN  \A i \in 1..Len(codes) :
                          isupper(codes[i]) /\ Len(codes[i]) = 3

LiteralOk(o, allowed) == IsNone(o) \/ Val(o) \in allowed

\* A value passed for a field is None, Some(v) with v of the field's declared
\* type, or Typed(kind, v): v with its Python type named, kind one of "str",
\* "int" and "bool"
Typed(kind, v) == <<kind, v>>
IsTyped(o) == Len(o) = 2

\* the declared type of a field (lines 42-127), Optional left out
FieldType(f) ==
    CASE f \in {"adults", "children", "infants_in_seat", "infants_on_lap",
                "bags", "max_price", "max_duration"} -> "int"
      [] f \in {"show_hidden", "exclude_basic", "deep_search", "no_cache",
                "async_", "zero_trace"} -> "bool"
      [] f \in {"type", "travel_class", "sort_by", "stops", "emissions"}
            -> "literal int"
      [] f = "output" -> "literal str"
      [] f = "multi_city_json" -> "list"
      [] OTHER -> "str"

\* pydantic reads an int from a text of fewer than 19 characters: the text
\* without the blanks at both ends is read as an optional sign and at least
\* one digit 0-9; when that fails it is cleaned and read again, this time
\* as an optional "-" and either "0" or digits that begin with 1-9.  The
\* cleaning drops one leading "+" (refusing "+-"), sets one leading "-" aside
\* (refusing "--" and "-+"), drops the leading zeros, then a "." followed by
\* zeros only, then the underscores, and puts the "-" back.
DigitSeq == <<"0", "1", "2", "3", "4", "5", "6", "7", "8", "9">>
IsDigit(c) == InSeq(c, DigitSeq)
\* the characters str::trim() of Rust removes: White_Space of Unicode
TrimChars == SpaceChars \ {"U+001C", "U+001D", "U+001E", "U+001F"}
RECURSIVE trim(_)
trim(s) == IF Len(s) > 0 /\ s[1] \in TrimChars THEN trim(Tail(s))
           ELSE IF Len(s) > 0 /\ s[Len(s)] \in TrimChars
           THEN trim(SubSeq(s, 1, Len(s) - 1))
           ELSE s
\* str::parse::<i64>(): an optional sign and at least one digit
Unsigned(s) == IF Len(s) > 0 /\ s[1] \in {"+", "-"} THEN Tail(s) ELSE s
IsSignedDigits(t) ==
    /\ Len(Unsigned(t)) > 0
    /\ \A i \in 1..Len(Unsigned(t)) : IsDigit(Unsigned(t)[i])
RECURSIVE DigitsValue(_, _)
DigitsValue(s, acc) ==
    IF Len(s) = 0 THEN acc
    ELSE DigitsValue(Tail(s), 10 * acc + IndexIn(Head(s), DigitSeq) - 1)
SignedValue(t) ==
    IF t[1] = "-" THEN 0 - DigitsValue(Unsigned(t), 0)
    ELSE DigitsValue(Unsigned(t), 0)
\* the sign of the cleaned text: refused is TRUE for "+-", "--" and "-+"
StripPlus(s) == IF Len(s) > 0 /\ s[1] = "+" THEN Tail(s) ELSE s
SignRefused(s) ==
    \/ Len(s) > 1 /\ s[1] = "+" /\ s[2] = "-"
    \/ Len(s) > 1 /\ s[1] = "-" /\ s[2] \in {"-", "+"}
IsNegative(s) == Len(StripPlus(s)) > 0 /\ StripPlus(s)[1] = "-"
StripSign(s) == IF IsNegative(s) THEN Tail(StripPlus(s)) ELSE StripPlus(s)
\* the text after a first "0": zeros and underscores are passed over up to a
\* digit 1-9 or a "-"; at a "." the zero before it is kept; when nothing but
\* zeros and underscores follows, the last character is kept
RECURSIVE AfterZeros(_, _)
AfterZeros(s, i) ==
    IF i > Len(s) THEN Some(SubSeq(s, Len(s), Len(s)))
    ELSE IF s[i] \in {"0", "_"} THEN AfterZeros(s, i + 1)
    ELSE IF s[i] \in {"1", "2", "3", "4", "5", "6", "7", "8", "9", "-"}
    THEN Some(SubSeq(s, i, Len(s)))
    ELSE IF s[i] = "." THEN Some(SubSeq(s, i - 1, Len(s)))
    ELSE None
\* None when the text does not begin with a digit or a "-"
strip_leading_zeros(s) ==
    IF Len(s) = 0 THEN None
    ELSE IF s[1] = "0" THEN AfterZeros(s, 2)
    ELSE IF s[1] \in {"1", "2", "3", "4", "5", "6", "7", "8", "9", "-"}
    THEN Some(s)
    ELSE None
FirstDot(s) == CHOOSE k \in 1..Len(s) :
                   s[k] = "." /\ \A m \in 1..(k - 1) : s[m] # "."
\* a "." followed by at least one zero and by zeros only is dropped with them
StripDecimalZeros(s) ==
    IF /\ \E k \in 1..Len(s) : s[k] = "."
       /\ FirstDot(s) < Len(s)
       /\ \A m \in (FirstDot(s) + 1)..Len(s) : s[m] = "0"
    THEN SubSeq(s, 1, FirstDot(s) - 1)
    ELSE s
\* the underscores are dropped unless one is first or last or two are adjacent
StripUnderscores(s) ==
    IF /\ Len(s) > 0 /\ s[1] # "_" /\ s[Len(s)] # "_"
       /\ \A i \in 1..(Len(s) - 1) : ~(s[i] = "_" /\ s[i + 1] = "_")
    THEN SelectSeq(s, LAMBDA c : c # "_")
    ELSE s
WithSign(s, t) == IF IsNegative(s) THEN <<"-">> \o t ELSE t
\* the cleaned text of a trimmed text, None when the cleaning refuses it
clean_int_str(s) ==
    IF SignRefused(s) \/ IsNone(strip_leading_zeros(StripSign(s))) THEN None
    ELSE Some(WithSign(s, StripUnderscores(StripDecimalZeros(
                             Val(strip_leading_zeros(StripSign(s)))))))
\* the second reading: an optional "-", then "0" or digits without a zero
\* in front
Unminused(t) == IF Len(t) > 0 /\ t[1] = "-" THEN Tail(t) ELSE t
IsPlainInt(t) ==
    /\ Len(Unminused(t)) > 0
    /\ \A i \in 1..Len(Unminused(t)) : IsDigit(Unminused(t)[i])
    /\ Len(Unminused(t)) = 1 \/ Unminused(t)[1] # "0"
\* the text that is read in the end
IntText(s) ==
    IF IsSignedDigits(trim(s)) THEN trim(s)
    ELSE IF IsNone(clean_int_str(trim(s))) THEN <<>>
    ELSE Val(clean_int_str(trim(s)))
IsIntText(s) == IsSignedDigits(trim(s)) \/ IsPlainInt(IntText(s))
int_from_str(s) == SignedValue(IntText(s))

\* the texts pydantic reads a bool from, in any letter case
TrueTexts == {<<"1">>, <<"o","n">>, <<"t">>, <<"t","r","u","e">>, <<"y">>,
              <<"y","e","s">>}
FalseTexts == {<<"0">>, <<"o","f","f">>, <<"f">>, <<"f","a","l","s","e">>,
               <<"n">>, <<"n","o">>}

\* the validation of one value against a declared type: ok is FALSE when
\* pydantic raises ValidationError, val is the value the field then holds
Invalid == [ok |-> FALSE, val |-> None]
Valid(o) == [ok |-> TRUE, val |-> o]
validate_type(t, o) ==
    IF ~IsTyped(o) THEN Valid(o)
    ELSE CASE t = "int" /\ o[1] = "int" -> Valid(Some(o[2]))
           [] t = "int" /\ o[1] = "bool" -> Valid(Some(IF o[2] THEN 1 ELSE 0))
           [] t = "int" /\ o[1] = "str" ->
                IF IsIntText(o[2]) THEN Valid(Some(int_from_str(o[2])))
                ELSE Invalid
           [] t = "bool" /\ o[1] = "bool" -> Valid(Some(o[2]))
           [] t = "bool" /\ o[1] = "int" ->
                IF o[2] \in {0, 1} THEN Valid(Some(o[2] = 1)) ELSE Invalid
           [] t = "bool" /\ o[1] = "str" ->
                IF lower(o[2]) \in TrueTexts THEN Valid(Some(TRUE))
                ELSE IF lower(o[2]) \in FalseTexts THEN Valid(Some(FALSE))
                ELSE Invalid
           [] t = "str" /\ o[1] = "str" -> Valid(Some(o[2]))
           [] t = "literal int" /\ o[1] = "int" -> Valid(Some(o[2]))
           [] t = "literal int" /\ o[1] = "bool" ->
                Valid(Some(IF o[2] THEN 1 ELSE 0))
           [] t = "literal str" /\ o[1] = "str" -> Valid(Some(o[2]))
           [] OTHER -> Invalid

\* the record a successful construction yields: the value of every field and
\* the set of fields the caller passed (pydantic's model_fields_set)
GoogleFlightsSearchParams(kw) ==
    LET vals == [f \in Fields |->
                    validate_type(FieldType(f), KwGet(kw, f)).val]
        valid == /\ \A f \in Fields :
                        validate_type(FieldType(f), KwGet(kw, f)).ok
                 /\ check_iata(vals["departure_id"])
                 /\ check_iata(vals["arrival_id"])
                 /\ LiteralOk(vals["type"], {1, 2, 3})
                 /\ LiteralOk(vals["travel_class"], {1, 2, 3, 4})
                 /\ LiteralOk(vals["stops"], {0, 1, 2, 3})
                 /\ LiteralOk(vals["sort_by"], {1, 2, 3, 4, 5, 6})
                 /\ LiteralOk(vals["emissions"], {1})
                 /\ LiteralOk(vals["output"], {<<"j","s","o","n">>,
                                               <<"h","t","m","l">>})
                 /\ validate_airline_filters(vals)
    IN  IF valid
        THEN [ok |-> TRUE, vals |-> vals,
              fields_set |-> {f \in Fields : KwHas(kw, f)}]
        ELSE [ok |-> FALSE, vals |-> vals, fields_set |-> {}]

(***************************************************************************)
(* tools/search_flights.py: _generate_cache_key                            *)
(***************************************************************************)
\* params.dict(exclude_unset=True): the fields the caller passed, None kept
dict_exclude_unset(params) ==
    LET keep == SelectSeq(FieldOrder, LAMBDA f : f \in params.fields_set)
    IN  [i \in 1..Len(keep) |-> <<keep[i], params.vals[keep[i]]>>]

\* params.dict(exclude_none=True): the pairs in field order, None left out
dict_exclude_none(params) ==
    LET keep == SelectSeq(FieldOrder, LAMBDA f : ~IsNone(params.vals[f]))
    IN  [i \in 1..Len(keep) |-> <<keep[i], Val(params.vals[keep[i]])>>]

RECURSIVE InsertByKey(_, _)
InsertByKey(pair, sorted) ==
    IF Len(sorted) = 0 THEN <<pair>>
    ELSE IF KeyRank(pair[1]) <= KeyRank(sorted[1][1])
         THEN <<pair>> \o sorted
         ELSE <<sorted[1]>> \o InsertByKey(pair, Tail(sorted))
RECURSIVE SortByKey(_)
SortByKey(pairs) ==
    IF Len(pairs) = 0 THEN <<>>
    ELSE InsertByKey(pairs[1], SortByKey(Tail(pairs)))

\* json.dumps(payload, sort_keys=True, default=str)
json_dumps_sorted(payload) == SortByKey(payload)

\* sha256(...).hexdigest(): a digest is identified with the text it digests
sha256(text) == <<"sha256", text>>

_generate_cache_key(params) ==
    <<"flight_search:", sha256(json_dumps_sorted(dict_exclude_none(params)))>>


(***************************************************************************)
(* Canonical dates: the text "YYYY-MM-DD" with four, two and two digits.   *)
(***************************************************************************)
CanonDate(y, m, d) == [shape |-> "canon", a |-> y, b |-> m, c |-> d]

(***************************************************************************)
(* The cached provider search: tools/search_flights.py, clients/redis.py   *)
(***************************************************************************)
VARIABLES
    apiKey,     \* SERPAPI_KEY is set (API_KEY truthy)
    redisUrl,   \* REDIS_URL is set
    redisUp,    \* the cache server answers
    client,     \* lru_cache of get_redis_client holds a client
    cache,      \* the cache store: key -> None | Some(entry)
    now,        \* the clock of the cache store
    pc,         \* position of each pipeline instance in search_google_flights
    params,     \* the record each instance searches for
    seen,       \* what redis_client.get gave the instance
    fetched,    \* how often the instance invoked the provider in this call
    fetchVal,   \* what the provider returned to the instance
    result,     \* the value the call returned
    raised,     \* the exception the call ended with ("" when none)
    warned      \* the warnings the call logged

\* the inputs and outputs of the key computation
VARIABLES
    kwFirst,    \* keyword arguments of a first record
    kwSecond,   \* keyword arguments of a second record
    keyFirst,   \* None | Some(key of the first record)
    keySecond   \* None | Some(key of the second record)

\* the inputs and outputs of the requirement interpreter
VARIABLES
    intent,     \* the intent record (the JSON object of the service)
    stage,      \* "new" | "built" | "interpreted"
    response,   \* the answer of the service to the extraction request
    answers,    \* the answers of the service to the resolution requests
    out         \* the outcome: params_list, errors, calls, logs

\* the input and output of one conversion applied on its own: the construction
\* of a record, city_to_iata, parse_date
VARIABLES
    given,      \* the argument of the conversion
    reply,      \* the answer of the service, should the conversion ask
    returned    \* None | Some(what the conversion returned)

cacheVars == <<apiKey, redisUrl, redisUp, client, cache, now, pc, params,
               seen, fetched, fetchVal, result, raised, warned>>
keyVars == <<kwFirst, kwSecond, keyFirst, keySecond>>
buildVars == <<intent, stage, response, answers, out>>
unitVars == <<given, reply, returned>>
vars == <<cacheVars, keyVars, buildVars, unitVars>>

Procs == {1, 2}
\* the instances that run in the sequential specification
Callers == {1}
Results == {"r1", "r2"}
FLIGHT_CACHE_TTL == 2

YOW == <<"Y","O","W">>
PEK_PKX == <<"P","E","K",",","P","K","X">>

\* three records: RecA and RecA2 are field-for-field equal (RecA2 passes the
\* null return_date explicitly and in another order), RecB differs
RecA == GoogleFlightsSearchParams(<<
            <<"type", Some(2)>>, <<"departure_id", Some(YOW)>>,
            <<"arrival_id", Some(PEK_PKX)>>,
            <<"outbound_date", Some(CanonDate(2026, 5, 25))>> >>)
RecA2 == GoogleFlightsSearchParams(<<
            <<"return_date", None>>,
            <<"outbound_date", Some(CanonDate(2026, 5, 25))>>,
            <<"arrival_id", Some(PEK_PKX)>>, <<"departure_id", Some(YOW)>>,
            <<"type", Some(2)>> >>)
RecB == GoogleFlightsSearchParams(<<
            <<"type", Some(2)>>, <<"departure_id", Some(YOW)>>,
            <<"arrival_id", Some(PEK_PKX)>>,
            <<"outbound_date", Some(CanonDate(2026, 5, 26))>> >>)
SearchRecs == {RecA, RecA2, RecB}
CacheKeys == {_generate_cache_key(r) : r \in SearchRecs}

\* json.dumps / json.loads of a provider result, and the blobs some other
\* writer may leave in the store
json_dumps_as_repr(v) == <<"repr", v>>
json_dumps(v) == <<"json", v>>
CorruptBlob == <<"garbage", "x">>
EmptyBlob == <<"empty", "">>
BlobTruthy(b) == b[1] # "empty"
json_loads(b) == IF b[1] = "json" THEN [ok |-> TRUE, val |-> b[2]]
                 ELSE [ok |-> FALSE, val |-> ""]
Blobs == {json_dumps(v) : v \in Results} \cup {CorruptBlob, EmptyBlob}

NotCalled == [st |-> "nocall", blob |-> EmptyBlob, by |-> ""]
GetRaised == [st |-> "raised", blob |-> EmptyBlob, by |-> ""]
GetAbsent == [st |-> "absent", blob |-> EmptyBlob, by |-> ""]
GetBlob(e) == [st |-> "blob", blob |-> e.blob, by |-> e.by]

CacheInit ==
    /\ apiKey \in BOOLEAN
    /\ redisUrl \in BOOLEAN
    /\ redisUp \in BOOLEAN
    /\ client = FALSE
    /\ cache = [k \in CacheKeys |-> None]
    /\ now = 0
    /\ pc = [p \in Procs |-> "idle"]
    /\ params = [p \in Procs |-> RecA]
    /\ seen = [p \in Procs |-> NotCalled]
    /\ fetched = [p \in Procs |-> 0]
    /\ fetchVal = [p \in Procs |-> None]
    /\ result = [p \in Procs |-> None]
    /\ raised = [p \in Procs |-> ""]
    /\ warned = [p \in Procs |-> {}]

\* clients/redis.py 11-15, get_redis_client: lru_cache returns the client it
\* holds; without one, redis.from_url raises at once when the URL is unset,
\* and otherwise the call waits on client.ping()
from_url_raises == ~redisUrl

\* search_flights.py 30-35: the API key check, the key, the lookup of the
\* client in lru_cache and redis.from_url
Begin(p, r) ==
    /\ pc[p] = "idle"
    /\ params' = [params EXCEPT ![p] = r]
    /\ IF ~apiKey
       THEN /\ raised' = [raised EXCEPT ![p] = "ValueError"]
            /\ pc' = [pc EXCEPT ![p] = "done"]
       ELSE IF client
       THEN /\ raised' = [raised EXCEPT ![p] = ""]
            /\ pc' = [pc EXCEPT ![p] = "get"]
       ELSE IF from_url_raises
       THEN /\ raised' = [raised EXCEPT ![p] = "RedisError"]
            /\ pc' = [pc EXCEPT ![p] = "done"]
       ELSE /\ raised' = [raised EXCEPT ![p] = ""]
            /\ pc' = [pc EXCEPT ![p] = "ping"]
    /\ UNCHANGED <<apiKey, redisUrl, redisUp, client, cache, now, seen,
                   fetched, fetchVal, result, warned>>

\* clients/redis.py 14-15: the answer to client.ping(); the exception leaves
\* search_google_flights (line 35 is outside the try), and on success
\* lru_cache keeps the client
Ping(p) ==
    /\ pc[p] = "ping"
    /\ IF ~redisUp
       THEN /\ raised' = [raised EXCEPT ![p] = "RedisError"]
            /\ pc' = [pc EXCEPT ![p] = "done"]
            /\ client' = client
       ELSE /\ raised' = raised
            /\ pc' = [pc EXCEPT ![p] = "get"]
            /\ client' = TRUE
    /\ UNCHANGED <<apiKey, redisUrl, redisUp, cache, now, params, seen,
                   fetched, fetchVal, result, warned>>

\* search_flights.py 37-44: the lookup
Get(p) ==
    /\ pc[p] = "get"
    /\ LET key == _generate_cache_key(params[p])
           entry == cache[key]
       IN  IF ~redisUp
           THEN /\ seen' = [seen EXCEPT ![p] = GetRaised]
                /\ warned' = [warned EXCEPT ![p] = @ \cup {"retrieval"}]
                /\ pc' = [pc EXCEPT ![p] = "fetch"]
                /\ result' = result
           ELSE IF IsNone(entry)
           THEN /\ seen' = [seen EXCEPT ![p] = GetAbsent]
                /\ warned' = warned
                /\ pc' = [pc EXCEPT ![p] = "fetch"]
                /\ result' = result
           ELSE LET b == Val(entry).blob
                IN  /\ seen' = [seen EXCEPT ![p] = GetBlob(Val(entry))]
                    /\ IF BlobTruthy(b) /\ json_loads(b).ok
                       THEN /\ result' = [result EXCEPT
                                             ![p] = Some(json_loads(b).val)]
                            /\ pc' = [pc EXCEPT ![p] = "done"]
                            /\ warned' = warned
                       ELSE /\ result' = result
                            /\ pc' = [pc EXCEPT ![p] = "fetch"]
                            /\ warned' = IF BlobTruthy(b)
                                         THEN [warned EXCEPT
                                                 ![p] = @ \cup {"retrieval"}]
                                         ELSE warned
    /\ UNCHANGED <<apiKey, redisUrl, redisUp, client, cache, now, params,
                   fetched, fetchVal, raised>>

\* search_flights.py 46-52: the provider call (GoogleSearch(...).get_dict())
Fetch(p) ==
    /\ pc[p] = "fetch"
    /\ fetched' = [fetched EXCEPT ![p] = @ + 1]
    /\ \/ \E v \in Results :
            /\ fetchVal' = [fetchVal EXCEPT ![p] = Some(v)]
            /\ pc' = [pc EXCEPT ![p] = "set"]
            /\ raised' = raised
       \/ /\ fetchVal' = fetchVal
          /\ pc' = [pc EXCEPT ![p] = "done"]
          /\ raised' = [raised EXCEPT ![p] = "ProviderError"]
    /\ UNCHANGED <<apiKey, redisUrl, redisUp, client, cache, now, params,
                   seen, result, warned>>

\* the entry redis_client.set(cache_key, json.dumps(results)) writes
StoredEntryEmpty(v, t) == [blob |-> EmptyBlob, exp |-> None, by |-> "app"]
StoredEntry(v, t) == [blob |-> json_dumps(v), exp |-> None, by |-> "app"]

\* the store without its try/except: a failing set ends the call
SetNoCatch(p) ==
    /\ pc[p] = "set"
    /\ LET key == _generate_cache_key(params[p])
       IN  IF redisUp
           THEN /\ cache' = [cache EXCEPT
                               ![key] = Some(StoredEntry(Val(fetchVal[p]), now))]
                /\ result' = [result EXCEPT ![p] = fetchVal[p]]
                /\ raised' = raised
           ELSE /\ cache' = cache
                /\ result' = result
                /\ raised' = [raised EXCEPT ![p] = "RedisError"]
    /\ pc' = [pc EXCEPT ![p] = "done"]
    /\ UNCHANGED <<apiKey, redisUrl, redisUp, client, now, params, seen,
                   fetched, fetchVal, warned>>

\* search_flights.py 54-64: the best-effort store and the return
Set(p) ==
    /\ pc[p] = "set"
    /\ LET key == _generate_cache_key(params[p])
       IN  IF redisUp
           THEN /\ cache' = [cache EXCEPT
                               ![key] = Some(StoredEntry(Val(fetchVal[p]), now))]
                /\ warned' = warned
           ELSE /\ cache' = cache
                /\ warned' = [warned EXCEPT ![p] = @ \cup {"storage"}]
    /\ result' = [result EXCEPT ![p] = fetchVal[p]]
    /\ pc' = [pc EXCEPT ![p] = "done"]
    /\ UNCHANGED <<apiKey, redisUrl, redisUp, client, now, params, seen,
                   fetched, fetchVal, raised>>

\* the caller takes the outcome; the instance is free for the next request
Return(p) ==
    /\ pc[p] = "done"
    /\ pc' = [pc EXCEPT ![p] = "idle"]
    /\ params' = [params EXCEPT ![p] = RecA]
    /\ seen' = [seen EXCEPT ![p] = NotCalled]
    /\ fetched' = [fetched EXCEPT ![p] = 0]
    /\ fetchVal' = [fetchVal EXCEPT ![p] = None]
    /\ result' = [result EXCEPT ![p] = None]
    /\ raised' = [raised EXCEPT ![p] = ""]
    /\ warned' = [warned EXCEPT ![p] = {}]
    /\ UNCHANGED <<apiKey, redisUrl, redisUp, client, cache, now>>

\* the environment: the cache server goes away and comes back
RedisToggle ==
    /\ redisUp' = ~redisUp
    /\ UNCHANGED <<apiKey, redisUrl, client, cache, now, pc, params, seen,
                   fetched, fetchVal, result, raised, warned>>

\* the environment: time passes and the store drops the entries that expired
Expired(e, t) == ~IsNone(e) /\ ~IsNone(Val(e).exp) /\ Val(Val(e).exp) <= t
Tick ==
    /\ now < MaxTime
    /\ now' = now + 1
    /\ cache' = [k \in CacheKeys |->
                    IF Expired(cache[k], now + 1) THEN None ELSE cache[k]]
    /\ UNCHANGED <<apiKey, redisUrl, redisUp, client, pc, params, seen,
                   fetched, fetchVal, result, raised, warned>>

\* the environment: another writer of the store leaves a blob under a key
ExternalWrite(k, b) ==
    /\ redisUp
    /\ cache' = [cache EXCEPT
                   ![k] = Some([blob |-> b,
                                exp |-> Some(now + FLIGHT_CACHE_TTL),
                                by |-> "ext"])]
    /\ UNCHANGED <<apiKey, redisUrl, redisUp, client, now, pc, params, seen,
                   fetched, fetchVal, result, raised, warned>>

CacheNext ==
    \/ \E p \in Callers, r \in SearchRecs : Begin(p, r)
    \/ \E p \in Callers : Ping(p)
    \/ \E p \in Callers : Get(p)
    \/ \E p \in Callers : Fetch(p)
    \/ \E p \in Callers : Set(p)
    \/ \E p \in Callers : Return(p)
    \/ RedisToggle
    \/ Tick
    \/ \E k \in CacheKeys, b \in Blobs : ExternalWrite(k, b)

TypeOK == pc \in [Procs -> {"idle", "ping", "get", "fetch", "set", "done"}]


(***************************************************************************)
(* tools/requirement_interpreter.py: the airport resolver                  *)
(***************************************************************************)
\* the static table, in the order of the source
COMMON_AIRPORTS == <<
    <<<<"t","o","r","o","n","t","o">>,
      <<"Y","Y","Z",",","Y","T","Z">>>>,
    <<<<"m","o","n","t","r","e","a","l">>,
      <<"Y","U","L",",","Y","H","U">>>>,
    <<<<"v","a","n","c","o","u","v","e","r">>,
      <<"Y","V","R",",","Y","X","X">>>>,
    <<<<"c","a","l","g","a","r","y">>,
      <<"Y","Y","C">>>>,
    <<<<"o","t","t","a","w","a">>,
      <<"Y","O","W">>>>,
    <<<<"e","d","m","o","n","t","o","n">>,
      <<"Y","E","G">>>>,
    <<<<"n","e","w"," ","y","o","r","k">>,
      <<"J","F","K",",","L","G","A",",","E","W","R">>>>,
    <<<<"l","o","s"," ","a","n","g","e","l","e","s">>,
      <<"L","A","X",",","B","U","R",",","S","N","A",",","L","G","B",",","O","N","T">>>>,
    <<<<"s","a","n"," ","f","r","a","n","c","i","s","c","o">>,
      <<"S","F","O",",","O","A","K",",","S","J","C">>>>,
    <<<<"c","h","i","c","a","g","o">>,
      <<"O","R","D",",","M","D","W">>>>,
    <<<<"w","a","s","h","i","n","g","t","o","n"," ","d","c">>,
      <<"I","A","D",",","D","C","A",",","B","W","I">>>>,
    <<<<"m","i","a","m","i">>,
      <<"M","I","A",",","F","L","L",",","P","B","I">>>>,
    <<<<"d","a","l","l","a","s">>,
      <<"D","F","W",",","D","A","L">>>>,
    <<<<"h","o","u","s","t","o","n">>,
      <<"I","A","H",",","H","O","U">>>>,
    <<<<"b","o","s","t","o","n">>,
      <<"B","O","S">>>>,
    <<<<"s","e","a","t","t","l","e">>,
      <<"S","E","A">>>>,
    <<<<"l","o","n","d","o","n">>,
      <<"L","H","R",",","L","G","W",",","S","T","N",",","L","T","N",",","L","C","Y",",","S","E","N">>>>,
    <<<<"p","a","r","i","s">>,
      <<"C","D","G",",","O","R","Y">>>>,
    <<<<"r","o","m","e">>,
      <<"F","C","O",",","C","I","A">>>>,
    <<<<"m","i","l","a","n">>,
      <<"M","X","P",",","L","I","N",",","B","G","Y">>>>,
    <<<<"b","e","r","l","i","n">>,
      <<"B","E","R">>>>,
    <<<<"a","m","s","t","e","r","d","a","m">>,
      <<"A","M","S">>>>,
    <<<<"f","r","a","n","k","f","u","r","t">>,
      <<"F","R","A">>>>,
    <<<<"m","u","n","i","c","h">>,
      <<"M","U","C">>>>,
    <<<<"m","a","d","r","i","d">>,
      <<"M","A","D">>>>,
    <<<<"b","a","r","c","e","l","o","n","a">>,
      <<"B","C","N">>>>,
    <<<<"b","e","i","j","i","n","g">>,
      <<"P","E","K",",","P","K","X">>>>,
    <<<<"s","h","a","n","g","h","a","i">>,
      <<"P","V","G",",","S","H","A">>>>,
    <<<<"g","u","a","n","g","z","h","o","u">>,
      <<"C","A","N">>>>,
    <<<<"s","h","e","n","z","h","e","n">>,
      <<"S","Z","X">>>>,
    <<<<"c","h","e","n","g","d","u">>,
      <<"C","T","U",",","T","I","A">>>>,
    <<<<"c","h","o","n","g","q","i","n","g">>,
      <<"C","K","G">>>>,
    <<<<"w","u","h","a","n">>,
      <<"W","U","H">>>>,
    <<<<"h","o","n","g"," ","k","o","n","g">>,
      <<"H","K","G">>>>,
    <<<<"m","a","c","a","u">>,
      <<"M","F","M">>>>,
    <<<<"t","a","i","p","e","i">>,
      <<"T","P","E",",","T","S","A">>>> >>

\* the answer of the text-interpretation service to one request: the call
\* raises, or it returns a text
LLMRaises == [raised |-> TRUE, text |-> <<>>]
LLMText(t) == [raised |-> FALSE, text |-> t]

validate_iata_code(code) ==
    LET c == strip(upper(code)) IN Len(c) = 3 /\ isalpha(c)

HasComma(s) == \E i \in 1..Len(s) : s[i] = ","

\* lines 98-100: the exact match on the normalised name
TableExact(city_lower) ==
    IF \E i \in 1..Len(COMMON_AIRPORTS) : COMMON_AIRPORTS[i][1] = city_lower
    THEN Some(COMMON_AIRPORTS[CHOOSE i \in 1..Len(COMMON_AIRPORTS) :
                                 COMMON_AIRPORTS[i][1] = city_lower][2])
    ELSE None

\* lines 102-105: the first key, in table order, that contains the name or is
\* contained in it
FuzzyHit(i, city_lower) ==
    \/ Contains(city_lower, COMMON_AIRPORTS[i][1])
    \/ Contains(COMMON_AIRPORTS[i][1], city_lower)
TableFuzzyLast(city_lower) ==
    IF \E i \in 1..Len(COMMON_AIRPORTS) : FuzzyHit(i, city_lower)
    THEN Some(COMMON_AIRPORTS[
                 CHOOSE i \in 1..Len(COMMON_AIRPORTS) :
                     /\ FuzzyHit(i, city_lower)
                     /\ \A j \in (i + 1)..Len(COMMON_AIRPORTS) :
                            ~FuzzyHit(j, city_lower)][2])
    ELSE None
TableFuzzy(city_lower) ==
    IF \E i \in 1..Len(COMMON_AIRPORTS) : FuzzyHit(i, city_lower)
    THEN Some(COMMON_AIRPORTS[
                 CHOOSE i \in 1..Len(COMMON_AIRPORTS) :
                     /\ FuzzyHit(i, city_lower)
                     /\ \A j \in 1..(i - 1) : ~FuzzyHit(j, city_lower)][2])
    ELSE None

\* lines 107-137: the answer of the service, validated code by code
LLMCodes(resp) ==
    IF resp.raised THEN None
    ELSE LET codes == upper(strip(resp.text))
         IN  IF HasComma(codes)
             THEN LET raw == split(codes, ",")
                      code_list == [i \in 1..Len(raw) |-> strip(raw[i])]
                  IN  IF \A i \in 1..Len(code_list) :
                             validate_iata_code(code_list[i])
                      THEN Some(join(code_list, ","))
                      ELSE None
             ELSE IF validate_iata_code(codes) THEN Some(codes) ELSE None

\* city_to_iata without the lowering of line 96
city_to_iata_as_typed(city_name, resp) ==
    IF IsNone(city_name)
    THEN [val |-> None, calls |-> <<>>, raised |-> TRUE]
    ELSE LET city_lower == strip(Val(city_name))
             exact == TableExact(city_lower)
             fuzzy == TableFuzzy(city_lower)
         IN  IF ~IsNone(exact)
             THEN [val |-> exact, calls |-> <<>>, raised |-> FALSE]
             ELSE IF ~IsNone(fuzzy)
             THEN [val |-> fuzzy, calls |-> <<>>, raised |-> FALSE]
             ELSE [val |-> LLMCodes(resp),
                   calls |-> << <<"city", Val(city_name)>> >>,
                   raised |-> FALSE]

\* city_to_iata: city_name is None | Some(text); resp is the answer the
\* service gives if this call asks it.  The outcome is the value returned, the
\* requests made to the service, and whether the call raised (None.lower()).
city_to_iata(city_name, resp) ==
    IF IsNone(city_name)
    THEN [val |-> None, calls |-> <<>>, raised |-> TRUE]
    ELSE LET city_lower == strip(lower(Val(city_name)))
             exact == TableExact(city_lower)
             fuzzy == TableFuzzy(city_lower)
         IN  IF ~IsNone(exact)
             THEN [val |-> exact, calls |-> <<>>, raised |-> FALSE]
             ELSE IF ~IsNone(fuzzy)
             THEN [val |-> fuzzy, calls |-> <<>>, raised |-> FALSE]
             ELSE [val |-> LLMCodes(resp),
                   calls |-> << <<"city", Val(city_name)>> >>,
                   raised |-> FALSE]

\* lines 80-85: the codes of the names from position i on, after those of acc;
\* resps[i] is the answer of the service should the i-th name ask it
RECURSIVE CodesFrom(_, _, _, _)
CodesFrom(names, resps, i, acc) ==
    IF i > Len(names) THEN [val |-> Some(join(acc, ",")), raised |-> FALSE]
    ELSE IF city_to_iata(names[i], resps[i]).raised
    THEN [val |-> None, raised |-> TRUE]
    ELSE IF ~Truthy(city_to_iata(names[i], resps[i]).val)
    THEN [val |-> None, raised |-> FALSE]
    ELSE CodesFrom(names, resps, i + 1,
             Append(acc, Val(city_to_iata(names[i], resps[i]).val)))

\* the arguments of cities_to_iatas: a list of names (each None | Some(text)),
\* one name, or a value that is neither
ListArg(names) == <<"list", names>>
StrArg(text) == <<"str", text>>
OtherArg == <<"other", <<>> >>

\* cities_to_iatas: a list is resolved name by name and joined, a str goes to
\* city_to_iata, anything else falls through to None
cities_to_iatas(city_names, resps) ==
    IF city_names[1] = "list" THEN CodesFrom(city_names[2], resps, 1, <<>>)
    ELSE IF city_names[1] = "str"
    THEN [val |-> city_to_iata(Some(city_names[2]), resps[1]).val,
          raised |-> FALSE]
    ELSE [val |-> None, raised |-> FALSE]

(***************************************************************************)
(* tools/requirement_interpreter.py: the date normaliser                   *)
(*                                                                         *)
(* A date text is [shape, a, b, c], a class of texts that every step of    *)
(* parse_date and datetime.strptime treats alike, with the numbers a, b, c *)
(* its digits spell.  The text is described as str.strip() leaves it       *)
(* (lines 147 and 183).  The numbers are written as the directives of      *)
(* strptime read them (the patterns of _strptime.TimeRE):                  *)
(*   a year   %Y four, %y two decimal digits, of any script (\d)           *)
(*   a month  one or two of the digits 0-9                                 *)
(*   a day    as a month, or in one of two ways only a day can be written: *)
(*            a blank and a digit 1-9, or 1 or 2 and a decimal digit that  *)
(*            is not one of 0-9                                            *)
(*   a name   of a month, full or abbreviated (English), in any letter case*)
(*   a blank of the format stands for one or more whitespace characters    *)
(* The shapes:                                                             *)
(*   canon     "aaaa-bb-cc"  four, two and two of the digits 0-9           *)
(*   canon_y   a text the pattern \d{4}-\d{2}-\d{2} matches, with a digit  *)
(*             that is not one of 0-9, each such digit in the year or last *)
(*             in a day that begins with 1 or 2: %Y-%m-%d reads it         *)
(*   canon_x   a text that pattern matches with a digit that is not one of *)
(*             0-9 in the month, or in the day elsewhere: no format reads  *)
(*             it                                                          *)
(*   dash1     "aaaa-b-c"    a year, a month and a day, not all of four,   *)
(*                           two and two digits                            *)
(*   slash4    "a/b/cccc"    a and b each written as a month can be, c a   *)
(*                           year of four digits                           *)
(*   slash4_d1 "a/b/cccc"    a written as only a day can be, b as a month  *)
(*   slash4_d2 "a/b/cccc"    b written as only a day can be, a as a month  *)
(*   slash2, slash2_d1, slash2_d2   the same with c a year of two digits   *)
(*   ymdslash  "aaaa/b/c"    a year of four digits, a month and a day      *)
(*   long_c    "<full month a> b, c"     abbr_c  "<abbreviated month a> b, c"*)
(*   long      "<full month a> b c"      abbr    "<abbreviated month a> b c"*)
(*             b a day, c a year of four digits                            *)
(*   unpadded  "a-bb-cc"     a year of fewer than four digits              *)
(*   blank     whitespace only: not falsy, strip() leaves ""               *)
(*   free      any other text, a identifies it ("tomorrow")                *)
(*   empty     ""                                                          *)
(***************************************************************************)
DateText(shape, a, b, c) == [shape |-> shape, a |-> a, b |-> b, c |-> c]
EmptyText == DateText("empty", 0, 0, 0)
FreeText(n) == DateText("free", n, 0, 0)
TextOfCanon(dt) == DateText("canon", dt.y, dt.m, dt.d)

\* the calendar of datetime
MINYEAR == 1
MAXYEAR == 9999
is_leap(y) == y % 4 = 0 /\ (y % 100 # 0 \/ y % 400 = 0)
DAYS_IN_MONTH == <<31, 28, 31, 30, 31, 30, 31, 31, 30, 31, 30, 31>>
days_in_month(y, m) == IF m = 2 /\ is_leap(y) THEN 29 ELSE DAYS_IN_MONTH[m]
RECURSIVE days_before_month(_, _)
days_before_month(y, m) ==
    IF m = 1 THEN 0 ELSE days_before_month(y, m - 1) + days_in_month(y, m - 1)
days_before_year(y) ==
    LET p == y - 1 IN p * 365 + (p \div 4) - (p \div 100) + (p \div 400)
ValidDate(y, m, d) ==
    /\ y >= MINYEAR /\ y <= MAXYEAR
    /\ m >= 1 /\ m <= 12
    /\ d >= 1 /\ d <= days_in_month(y, m)
ymd2ord(y, m, d) == days_before_year(y) + days_before_month(y, m) + d
MaxOrdinal == ymd2ord(MAXYEAR, 12, 31)

\* datetime's ordinal -> (year, month, day)
ord2ymd(ordinal) ==
    LET n0 == ordinal - 1
        n400 == n0 \div 146097
        r400 == n0 % 146097
        n100 == r400 \div 36524
        r100 == r400 % 36524
        n4 == r100 \div 1461
        r4 == r100 % 1461
        n1 == r4 \div 365
        n == r4 % 365
        year == n400 * 400 + 1 + n100 * 100 + n4 * 4 + n1
    IN  IF n1 = 4 \/ n100 = 4
        THEN [y |-> year - 1, m |-> 12, d |-> 31]
        ELSE LET month == CHOOSE m \in 1..12 :
                              /\ days_before_month(year, m) <= n
                              /\ n < days_before_month(year, m)
                                       + days_in_month(year, m)
             IN  [y |-> year, m |-> month,
                  d |-> n - days_before_month(year, month) + 1]

\* datetime.strptime(text, fmt): None (ValueError) | Some([y, m, d])
StrptimeAnyDay(y, m, d) == Some([y |-> y, m |-> m, d |-> d])
StrptimeYMD(y, m, d) ==
    IF ValidDate(y, m, d) THEN Some([y |-> y, m |-> m, d |-> d]) ELSE None
Century(yy) == IF yy < 69 THEN 2000 + yy ELSE 1900 + yy
\* the text has the shape the directive reads, or the other spelling of the
\* month where the two coincide: "May" is both the full and the abbreviated name
SameName(m) == m = 5
NamedAs(t, shape, other) ==
    t.shape = shape \/ (t.shape = other /\ SameName(t.a))
strptime(t, fmt) ==
    CASE fmt = "%Y-%m-%d" /\ t.shape \in {"canon", "canon_y", "dash1"} ->
             StrptimeYMD(t.a, t.b, t.c)
      [] fmt = "%m/%d/%Y" /\ t.shape \in {"slash4", "slash4_d2"} ->
             StrptimeYMD(t.c, t.a, t.b)
      [] fmt = "%m/%d/%y" /\ t.shape \in {"slash2", "slash2_d2"} ->
             StrptimeYMD(Century(t.c), t.a, t.b)
      [] fmt = "%d/%m/%Y" /\ t.shape \in {"slash4", "slash4_d1"} ->
             StrptimeYMD(t.c, t.b, t.a)
      [] fmt = "%d/%m/%y" /\ t.shape \in {"slash2", "slash2_d1"} ->
             StrptimeYMD(Century(t.c), t.b, t.a)
      [] fmt = "%Y/%m/%d" /\ t.shape = "ymdslash" -> StrptimeYMD(t.a, t.b, t.c)
      [] fmt = "%B %d, %Y" /\ NamedAs(t, "long_c", "abbr_c") ->
             StrptimeYMD(t.c, t.a, t.b)
      [] fmt = "%b %d, %Y" /\ NamedAs(t, "abbr_c", "long_c") ->
             StrptimeYMD(t.c, t.a, t.b)
      [] fmt = "%B %d %Y" /\ NamedAs(t, "long", "abbr") ->
             StrptimeYMD(t.c, t.a, t.b)
      [] fmt = "%b %d %Y" /\ NamedAs(t, "abbr", "long") ->
             StrptimeYMD(t.c, t.a, t.b)
      [] OTHER -> None

\* strftime("%Y-%m-%d"): the C library writes the year without leading zeros,
\* so a year below 1000 gives "a-bb-cc" with fewer than four digits of year
strftime(dt) ==
    IF dt.y >= 1000 THEN DateText("canon", dt.y, dt.m, dt.d)
    ELSE DateText("unpadded", dt.y, dt.m, dt.d)

\* the day number moved without carrying into the month
add_days_no_carry(dt, offset) == Some([dt EXCEPT !.d = @ + offset])
\* dt + timedelta(days=offset): None is OverflowError
add_days(dt, offset) ==
    LET o == ymd2ord(dt.y, dt.m, dt.d) + offset
    IN  IF o < 1 \/ o > MaxOrdinal THEN None ELSE Some(ord2ymd(o))

formats_day_first ==
    <<"%Y-%m-%d", "%d/%m/%Y", "%d/%m/%y", "%m/%d/%Y", "%m/%d/%y",
      "%Y/%m/%d", "%B %d, %Y", "%b %d, %Y", "%B %d %Y", "%b %d %Y">>
formats == <<"%Y-%m-%d", "%m/%d/%Y", "%m/%d/%y", "%d/%m/%Y", "%d/%m/%y",
             "%Y/%m/%d", "%B %d, %Y", "%b %d, %Y", "%B %d %Y", "%b %d %Y">>

\* re.match(r'^\d{4}-\d{2}-\d{2}$', text): \d is a decimal digit of any script
MatchesCanonPattern(t) == t.shape \in {"canon", "canon_y", "canon_x"}

\* lines 167-172: the first format that parses
RECURSIVE TryFormats(_, _)
TryFormats(t, i) ==
    IF i > Len(formats) THEN None
    ELSE IF ~IsNone(strptime(t, formats[i]))
         THEN Some(strftime(Val(strptime(t, formats[i]))))
         ELSE TryFormats(t, i + 1)

\* lines 174-190: the answer of the service, accepted if of canonical form
LLMDate(resp) ==
    IF resp.raised THEN None
    ELSE IF MatchesCanonPattern(resp.text) THEN Some(resp.text) ELSE None

\* parse_date: date_str is None | Some(date text); resp is the answer the
\* service gives if this call asks it
parse_date(date_str, resp) ==
    IF IsNone(date_str) \/ Val(date_str).shape = "empty"
    THEN [val |-> None, calls |-> <<>>]
    ELSE LET t == IF Val(date_str).shape = "blank" THEN EmptyText
                  ELSE Val(date_str)
         IN  IF MatchesCanonPattern(t)
             THEN [val |-> Some(t), calls |-> <<>>]
             ELSE IF ~IsNone(TryFormats(t, 1))
             THEN [val |-> TryFormats(t, 1), calls |-> <<>>]
             ELSE [val |-> LLMDate(resp),
                   calls |-> << <<"date", t>> >>]

(***************************************************************************)
(* tools/requirement_interpreter.py: the parameter builder                 *)
(*                                                                         *)
(* An intent is a function from the keys present in the JSON object to     *)
(* None (null) or Some(value).  llm holds the answer of the service for    *)
(* each place that may ask it: dep, arr, out, ret and, per segment, segs.  *)
(***************************************************************************)
S_one_way == <<"o","n","e","_","w","a","y">>
S_round_trip == <<"r","o","u","n","d","_","t","r","i","p">>
S_multi_city == <<"m","u","l","t","i","_","c","i","t","y">>

\* dict.get(key, default)
dict_get(d, k, default) == IF k \in DOMAIN d THEN d[k] ELSE default

\* truthiness of an Optional canonical date (a non-empty text when present)
TruthyDate(o) == ~IsNone(o)

\* truthiness of flexible_dates
TruthyBool(o) == ~IsNone(o) /\ Val(o) = TRUE

\* the outcome of a build: the records, the diagnostics handed to the caller,
\* the requests made to the service and the messages logged
Out(list, calls, logs) ==
    [params_list |-> list, errors |-> <<>>, calls |-> calls, logs |-> logs]

\* lines 246-262: the arguments of the multi-city record
MultiKw(intent_data, segments) ==
    << <<"type", Some(3)>>, <<"departure_id", None>>, <<"arrival_id", None>>,
       <<"outbound_date", None>>, <<"return_date", None>>,
       <<"multi_city_json", Some(segments)>>,
       <<"adults", dict_get(intent_data, "adults", Some(1))>>,
       <<"children", dict_get(intent_data, "children", Some(0))>>,
       <<"infants_in_seat", dict_get(intent_data, "infants_in_seat", Some(0))>>,
       <<"infants_on_lap", dict_get(intent_data, "infants_on_lap", Some(0))>>,
       <<"travel_class", dict_get(intent_data, "travel_class", None)>>,
       <<"stops", dict_get(intent_data, "stops", None)>>,
       <<"gl", dict_get(intent_data, "gl", Some(<<"c","a">>))>>,
       <<"hl", dict_get(intent_data, "hl", Some(<<"e","n">>))>>,
       <<"currency", dict_get(intent_data, "currency", Some(<<"C","A","D">>))>> >>

\* lines 291-313 and 330-352: the arguments of a one-way / round-trip record
TripKw(intent_data, type_code, departure_iata, arrival_iata, outbound, return) ==
    << <<"type", Some(type_code)>>,
       <<"departure_id", departure_iata>>, <<"arrival_id", arrival_iata>>,
       <<"outbound_date", outbound>>, <<"return_date", return>>,
       <<"multi_city_json", None>>,
       <<"adults", dict_get(intent_data, "adults", Some(1))>>,
       <<"children", dict_get(intent_data, "children", Some(0))>>,
       <<"infants_in_seat", dict_get(intent_data, "infants_in_seat", Some(0))>>,
       <<"infants_on_lap", dict_get(intent_data, "infants_on_lap", Some(0))>>,
       <<"travel_class", dict_get(intent_data, "travel_class", None)>>,
       <<"stops", dict_get(intent_data, "stops", None)>>,
       <<"gl", dict_get(intent_data, "gl", Some(<<"c","a">>))>>,
       <<"hl", dict_get(intent_data, "hl", Some(<<"e","n">>))>>,
       <<"currency", dict_get(intent_data, "currency", Some(<<"C","A","D">>))>>,
       <<"exclude_airlines", dict_get(intent_data, "exclude_airlines", None)>>,
       <<"include_airlines", dict_get(intent_data, "include_airlines", None)>>,
       <<"max_price", dict_get(intent_data, "max_price", None)>>,
       <<"bags", dict_get(intent_data, "bags", None)>>,
       <<"outbound_times", dict_get(intent_data, "outbound_times", None)>>,
       <<"return_times", dict_get(intent_data, "return_times", None)>> >>

\* line 288
type_code_of(flight_type) == IF flight_type = S_round_trip THEN 1 ELSE 2

\* line 281: the return date is parsed for a round trip only
ResolveReturnAlways(intent_data, flight_type, resp) ==
    parse_date(dict_get(intent_data, "return_date", Some(EmptyText)), resp)
ResolveReturn(intent_data, flight_type, resp) ==
    IF flight_type = S_round_trip
    THEN parse_date(dict_get(intent_data, "return_date", Some(EmptyText)), resp)
    ELSE [val |-> None, calls |-> <<>>]

\* line 269, 276 and 283: the guards that abort the build
CityMissing(city) == ~Truthy(city)
IataMissing(iata) == ~Truthy(iata)
OutboundNeverMissing(outbound) == FALSE
OutboundMissing(outbound) == IsNone(outbound)

\* lines 322-353: the variants for the offsets from position i on; acc is
\* params_list so far.  A ValueError (strptime, validation) is caught at 354,
\* an OverflowError (timedelta) at 357: both end the loop and keep acc.
Offsets == <<-1, 1>>
RECURSIVE Variants(_, _, _, _, _, _, _, _, _, _)
Variants(intent_data, type_code, dep, arr, outbound_dt, return_date, i, acc, calls, logs) ==
    IF i > Len(Offsets) THEN Out(acc, calls, logs)
    ELSE
    LET day_offset == Offsets[i]
        alt_outbound == add_days(outbound_dt, day_offset)
    IN  IF IsNone(alt_outbound)
        THEN Out(acc, calls, logs \o <<"error: building search parameters">>)
        ELSE
        LET return_dt == IF TruthyDate(return_date)
                         THEN strptime(Val(return_date), "%Y-%m-%d")
                         ELSE None
            alt_return_dt == IF IsNone(return_dt) THEN None
                             ELSE add_days(Val(return_dt), day_offset)
        IN  IF TruthyDate(return_date) /\ IsNone(return_dt)
            THEN Out(acc, calls, logs \o <<"warning: flexible dates">>)
            ELSE IF TruthyDate(return_date) /\ IsNone(alt_return_dt)
            THEN Out(acc, calls,
                     logs \o <<"error: building search parameters">>)
            ELSE
            LET alt_return == IF TruthyDate(return_date)
                              THEN Some(strftime(Val(alt_return_dt)))
                              ELSE None
                alt_params == GoogleFlightsSearchParams(
                                 TripKw(intent_data, type_code, dep, arr,
                                        Some(strftime(Val(alt_outbound))),
                                        alt_return))
            IN  IF ~alt_params.ok
                THEN Out(acc, calls, logs \o <<"warning: flexible dates">>)
                ELSE Variants(intent_data, type_code, dep, arr, outbound_dt,
                              return_date, i + 1, Append(acc, alt_params),
                              calls, logs)

\* lines 265-355: the one-way / round-trip branch
BuildTrip(intent_data, flight_type, llm) ==
    LET departure_city == dict_get(intent_data, "departure_city", None)
        arrival_city == dict_get(intent_data, "arrival_city", None)
    IN  IF CityMissing(departure_city) \/ CityMissing(arrival_city)
        THEN Out(<<>>, <<>>, <<"error: cities required">>)
        ELSE
        LET depR == city_to_iata(departure_city, llm.dep)
            arrR == city_to_iata(arrival_city, llm.arr)
            calls1 == depR.calls \o arrR.calls
        IN  IF IataMissing(depR.val) \/ IataMissing(arrR.val)
            THEN Out(<<>>, calls1, <<"error: could not convert cities">>)
            ELSE
            LET outR == parse_date(dict_get(intent_data, "outbound_date",
                                       Some(EmptyText)), llm.out)
                retR == ResolveReturn(intent_data, flight_type, llm.ret)
                calls2 == calls1 \o outR.calls \o retR.calls
            IN  IF OutboundMissing(outR.val)
                THEN Out(<<>>, calls2, <<"error: outbound date required">>)
                ELSE
                LET type_code == type_code_of(flight_type)
                    base == GoogleFlightsSearchParams(
                               TripKw(intent_data, type_code, depR.val, arrR.val,
                                      outR.val, retR.val))
                IN  IF ~base.ok
                    THEN Out(<<>>, calls2,
                             <<"error: building search parameters">>)
                    ELSE IF ~TruthyBool(dict_get(intent_data, "flexible_dates", None))
                    THEN Out(<<base>>, calls2, <<>>)
                    ELSE
                    LET outbound_dt == IF IsNone(outR.val) THEN None
                                       ELSE strptime(Val(outR.val), "%Y-%m-%d")
                    IN  IF IsNone(outbound_dt)
                        THEN Out(<<base>>, calls2,
                                 <<"warning: flexible dates">>)
                        ELSE Variants(intent_data, type_code, depR.val, arrR.val,
                                      Val(outbound_dt), retR.val, 1,
                                      <<base>>, calls2, <<>>)

\* models/serp.py 10-37: MultiCityFlightSegment; the three texts come from
\* the conversions, times is the value the caller's segment holds.  ok is
\* FALSE when pydantic raises ValidationError
MultiCityFlightSegment(departure_id, arrival_id, date, times) ==
    [ok |-> validate_type("str", times).ok,
     val |-> [departure_id |-> departure_id, arrival_id |-> arrival_id,
              date |-> date, times |-> validate_type("str", times).val]]

\* lines 215-224: the segment appended, None when the construction raises
\* ValidationError and the segment is skipped with a warning
SegmentMade(segment) == IF segment.ok THEN Some(segment.val) ELSE None

\* lines 204-224: one pass of the loop over the segments, given the outcomes
\* depR, arrR and dateR of its three conversions; val is the segment
\* appended, None when the segment is skipped
SegmentWith(seg, depR, arrR, dateR) ==
    IF depR.raised
    THEN [val |-> None, calls |-> <<>>, raised |-> TRUE]
    ELSE IF arrR.raised
    THEN [val |-> None, calls |-> depR.calls, raised |-> TRUE]
    ELSE IF IataMissing(depR.val) \/ IataMissing(arrR.val) \/ IsNone(dateR.val)
    THEN [val |-> None, calls |-> depR.calls \o arrR.calls \o dateR.calls,
          raised |-> FALSE]
    ELSE [val |-> SegmentMade(MultiCityFlightSegment(
                          Val(depR.val), Val(arrR.val), Val(dateR.val),
                          dict_get(seg, "times", None))),
          calls |-> depR.calls \o arrR.calls \o dateR.calls,
          raised |-> FALSE]

SegmentOf(seg, resp) ==
    SegmentWith(seg,
        city_to_iata(dict_get(seg, "departure", Some(<<>>)), resp.dep),
        city_to_iata(dict_get(seg, "arrival", Some(<<>>)), resp.arr),
        parse_date(dict_get(seg, "date", Some(EmptyText)), resp.date))

\* lines 203-224: the segments from position i on; acc is the list so far,
\* r the outcome of the pass at position i
RECURSIVE SegmentsFrom(_, _, _, _, _)
RECURSIVE SegmentsAfter(_, _, _, _, _, _)
SegmentsAfter(segments_data, llm, i, acc, calls, r) ==
    IF r.raised
    THEN [val |-> acc, calls |-> calls \o r.calls, raised |-> TRUE]
    ELSE SegmentsFrom(segments_data, llm, i + 1,
             IF IsNone(r.val) THEN acc ELSE Append(acc, Val(r.val)),
             calls \o r.calls)

SegmentsFrom(segments_data, llm, i, acc, calls) ==
    IF i > Len(segments_data)
    THEN [val |-> acc, calls |-> calls, raised |-> FALSE]
    ELSE SegmentsAfter(segments_data, llm, i, acc, calls,
                       SegmentOf(segments_data[i], llm.segs[i]))

\* line 226: the list, or None when it is empty
SegmentsKeepEmpty(r) ==
    [val |-> Some(r.val), calls |-> r.calls, raised |-> r.raised]
SegmentsOrNone(r) ==
    [val |-> IF Len(r.val) > 0 THEN Some(r.val) ELSE None,
     calls |-> r.calls, raised |-> r.raised]

\* extract_multi_city_segments: val is None | Some(list)
SegmentsData(intent_data) == dict_get(intent_data, "multi_city_segments", None)
extract_multi_city_segments(intent_data, llm) ==
    IF IsNone(SegmentsData(intent_data)) \/ Len(Val(SegmentsData(intent_data))) = 0
    THEN [val |-> None, calls |-> <<>>, raised |-> FALSE]
    ELSE SegmentsOrNone(
             SegmentsFrom(Val(SegmentsData(intent_data)), llm, 1, <<>>, <<>>))

\* lines 246-263: the record of the segments r, once validated as p
MultiCityOut(r, p) ==
    IF p.ok THEN Out(<<p>>, r.calls, <<>>)
    ELSE Out(<<>>, r.calls, <<"error: building search parameters">>)

\* lines 239-263: the multi-city branch, r the outcome of the extraction
MultiCityWith(intent_data, r) ==
    IF r.raised
    THEN Out(<<>>, r.calls, <<"error: building search parameters">>)
    ELSE IF IsNone(r.val)
    THEN Out(<<>>, r.calls, <<"error: no valid segments">>)
    ELSE MultiCityOut(r, GoogleFlightsSearchParams(
                             MultiKw(intent_data, Val(r.val))))

BuildMultiCity(intent_data, llm) ==
    MultiCityWith(intent_data, extract_multi_city_segments(intent_data, llm))

\* build_search_params_from_intent
build_search_params_from_intent(intent_data, llm) ==
    LET ft == dict_get(intent_data, "flight_type", Some(S_one_way))
    IN  IF IsNone(ft)
        THEN Out(<<>>, <<>>, <<"error: building search parameters">>)
        ELSE IF lower(Val(ft)) = S_multi_city
        THEN BuildMultiCity(intent_data, llm)
        ELSE BuildTrip(intent_data, lower(Val(ft)), llm)

(***************************************************************************)
(* tools/requirement_interpreter.py: the intent_data extractor and the pipeline *)
(*                                                                         *)
(* The answer of the service is written as a sequence of tokens: "{", "}", *)
(* "t" (commentary without braces) and "J", the members of the JSON object *)
(* of the intent.  The text the regular expression reads has "J" spelled   *)
(* out: the members hold no brace unless the intent lists segments, and    *)
(* then multi_city_segments holds one {...} object for each segment:       *)
(* "J[" "{" "S1" "}" "," "{" "S2" "}" "]J".                                 *)
(***************************************************************************)
SegNames == <<"S1", "S2", "S3", "S4">>

\* the objects of the segments from position k on, comma-separated
RECURSIVE SegmentTokens(_, _)
SegmentTokens(n, k) ==
    IF k > n THEN <<>>
    ELSE (IF k > 1 THEN <<",">> ELSE <<>>)
         \o <<"{", SegNames[k], "}">> \o SegmentTokens(n, k + 1)

\* the segments the object body lists
BodySegments(body) ==
    IF IsNone(dict_get(body, "multi_city_segments", None)) THEN <<>>
    ELSE Val(dict_get(body, "multi_city_segments", None))

\* the members of the object body as the text spells them
MemberTokens(body) ==
    IF Len(BodySegments(body)) = 0 THEN <<"J">>
    ELSE <<"J[">> \o SegmentTokens(Len(BodySegments(body)), 1) \o <<"]J">>

\* the text of the answer, "J" spelled out
RECURSIVE ResponseText(_, _)
ResponseText(tokens, body) ==
    IF Len(tokens) = 0 THEN <<>>
    ELSE (IF Head(tokens) = "J" THEN MemberTokens(body) ELSE <<Head(tokens)>>)
         \o ResponseText(Tail(tokens), body)

\* re.search(r'\{[\s\S]*\}', response): from the first "{" to the last "}"
json_match(text) ==
    IF \E i, j \in 1..Len(text) : i < j /\ text[i] = "{" /\ text[j] = "}"
    THEN LET i == CHOOSE k \in 1..Len(text) :
                      text[k] = "{" /\ \A m \in 1..(k - 1) : text[m] # "{"
             j == CHOOSE k \in 1..Len(text) :
                      text[k] = "}" /\ \A m \in (k + 1)..Len(text) : text[m] # "}"
         IN  IF i < j THEN Some(SubSeq(text, i, j)) ELSE None
    ELSE None

\* json.loads(region): None is JSONDecodeError.  The region is valid JSON
\* when it is the whole object of the intent, the empty object, or the object
\* of one segment
EmptyDict == <<>>
IsSegmentObject(region, body) ==
    /\ Len(region) = 3 /\ region[1] = "{" /\ region[3] = "}"
    /\ \E k \in 1..Len(BodySegments(body)) : region[2] = SegNames[k]
json_loads_object(region, body) ==
    IF region = <<"{">> \o MemberTokens(body) \o <<"}">> THEN Some(body)
    ELSE IF region = <<"{", "}">> THEN Some(EmptyDict)
    ELSE IF IsSegmentObject(region, body)
    THEN Some(BodySegments(body)[CHOOSE k \in 1..Len(BodySegments(body)) :
                                     region[2] = SegNames[k]])
    ELSE None

\* the optional object o is the object body
IsObject(o, body) ==
    ~IsNone(o) /\ DOMAIN Val(o) = DOMAIN body /\ Val(o) = body

\* lines 425-431: the outcome for the region m the expression matched
ParsedRegion(m, body) ==
    IF IsNone(m)
    THEN [intent_data |-> None,
          errors |-> <<"Failed to extract JSON from LLM response">>]
    ELSE IF IsNone(json_loads_object(Val(m), body))
    THEN [intent_data |-> None,
          errors |-> <<"Failed to parse LLM response as JSON">>]
    ELSE [intent_data |-> json_loads_object(Val(m), body), errors |-> <<>>]

\* parse_user_input: (intent_data, errors)
parse_user_input_quiet(resp, body) ==
    IF resp.raised
    THEN [intent_data |-> None, errors |-> <<>>]
    ELSE [intent_data |->
              ParsedRegion(json_match(ResponseText(resp.text, body)),
                           body).intent_data,
          errors |-> <<>>]
parse_user_input(resp, body) ==
    IF resp.raised
    THEN [intent_data |-> None, errors |-> <<"Error parsing user input">>]
    ELSE ParsedRegion(json_match(ResponseText(resp.text, body)), body)

\* lines 456-468: the pair returned, b the outcome of the build
InterpretedOut(all_errors, b) ==
    [params_list |-> b.params_list, errors |-> all_errors,
     calls |-> << <<"extract">> >> \o b.calls, logs |-> b.logs]

\* lines 450-468: after the extraction, parsed its outcome
InterpretWith(parsed, llm) ==
    IF IsNone(parsed.intent_data) \/ DOMAIN Val(parsed.intent_data) = {}
    THEN [params_list |-> <<>>,
          errors |-> parsed.errors \o <<"Failed to parse user requirements">>,
          calls |-> << <<"extract">> >>, logs |-> <<>>]
    ELSE InterpretedOut(parsed.errors,
             build_search_params_from_intent(Val(parsed.intent_data), llm))

\* interpret_user_requirements: (search_params_list, errors)
interpret_user_requirements(resp, body, llm) ==
    InterpretWith(parse_user_input(resp, body), llm)

(***************************************************************************)
(* The inputs of the builder                                               *)
(***************************************************************************)
MaxSegs == 2

T_Paris == <<"P","a","r","i","s">>
T_Toronto == <<"t","o","r","o","n","t","o">>
T_Unknownsville == <<"U","n","k","n","o","w","n","s","v","i","l","l","e">>
T_Gotham == <<"G","o","t","h","a","m">>
T_Blank == <<" ">>
T_Paris_Toronto == <<"P","a","r","i","s",","," ","T","o","r","o","n","t","o">>
T_Round_Trip == <<"R","o","u","n","d","_","T","r","i","p">>
T_AC == <<"A","C">>
T_UA == <<"U","A">>

FlightTypeChoices == {<<"absent">>, <<"given", None>>,
                      <<"given", Some(S_one_way)>>,
                      <<"given", Some(T_Round_Trip)>>}
DepCities == {None, Some(T_Blank), Some(T_Paris), Some(T_Unknownsville),
              Some(T_Paris_Toronto)}
ArrCities == {None, Some(T_Toronto), Some(T_Gotham)}
OutboundTexts == {None,
                  Some(CanonDate(2024, 2, 29)), Some(CanonDate(2024, 12, 31)),
                  Some(CanonDate(2025, 3, 1)), Some(CanonDate(9999, 12, 31)),
                  Some(CanonDate(2025, 2, 30)),
                  Some(DateText("slash4", 1, 2, 2025)), Some(FreeText(1)),
                  Some(CanonDate(999, 6, 1)), Some(CanonDate(1000, 1, 1)),
                  Some(CanonDate(1000, 1, 2)),
                  Some(DateText("canon_x", 2025, 1, 2))}
ReturnTexts == {None, Some(CanonDate(2024, 12, 31)),
                Some(CanonDate(2025, 2, 30)), Some(FreeText(2)),
                Some(CanonDate(1000, 1, 1)), Some(CanonDate(1000, 1, 2))}
\* the dates of year 1000 or before, which have a neighbour of fewer than
\* four digits of year or none, and the text in digits strptime does not read
EarlyText(o) ==
    /\ ~IsNone(o)
    /\ \/ Val(o).shape = "canon_x"
       \/ Val(o).shape = "canon" /\ Val(o).a <= 1000
FlexChoices == {Some(TRUE), Some(FALSE)}
AirlineChoices == {<<None, None>>, <<Some(T_AC), Some(T_UA)>>,
                   <<Some(<<>>), Some(T_UA)>>}

TripIntent(ftc, dep, arr, outb, ret, flex, air) ==
    (IF ftc[1] = "given" THEN "flight_type" :> ftc[2] ELSE EmptyDict)
    @@ ("departure_city" :> dep) @@ ("arrival_city" :> arr)
    @@ ("outbound_date" :> outb) @@ ("return_date" :> ret)
    @@ ("flexible_dates" :> flex)
    @@ ("exclude_airlines" :> air[1]) @@ ("include_airlines" :> air[2])
\* an intent with an early text has a trip type, cities that resolve, no
\* airline filter, and its other date early too or absent
PlainChoice(ftc, dep, arr, outb, ret, air) ==
    /\ ftc \in {<<"given", Some(S_one_way)>>, <<"given", Some(T_Round_Trip)>>}
    /\ dep = Some(T_Paris) /\ arr = Some(T_Toronto)
    /\ air = <<None, None>>
    /\ IsNone(outb) \/ EarlyText(outb)
    /\ IsNone(ret) \/ EarlyText(ret)
TripChoices ==
    {x \in FlightTypeChoices \X DepCities \X ArrCities \X OutboundTexts
            \X ReturnTexts \X FlexChoices \X AirlineChoices :
        (EarlyText(x[4]) \/ EarlyText(x[5]))
            => PlainChoice(x[1], x[2], x[3], x[4], x[5], x[7])}
TripIntents ==
    {TripIntent(x[1], x[2], x[3], x[4], x[5], x[6], x[7]) : x \in TripChoices}

Segment(dep, arr, date) ==
    ("departure" :> dep) @@ ("arrival" :> arr) @@ ("date" :> date)
    @@ ("times" :> None)
SegmentChoices ==
    {Segment(Some(T_Paris), Some(T_Toronto), Some(CanonDate(2025, 6, 15))),
     Segment(Some(T_Toronto), Some(T_Gotham), Some(CanonDate(2025, 6, 20))),
     Segment(Some(T_Toronto), Some(T_Paris), Some(FreeText(1))),
     ("arrival" :> Some(T_Paris)) @@ ("date" :> Some(CanonDate(2025, 6, 25))),
     Segment(None, Some(T_Paris), Some(CanonDate(2025, 6, 25))),
     ("times" :> Typed("int", 818))
     @@ Segment(Some(T_Paris), Some(T_Toronto), Some(CanonDate(2025, 6, 15)))}
SegmentLists == UNION {[1..n -> SegmentChoices] : n \in 0..MaxSegs}
MultiIntent(segs, flex) ==
    ("flight_type" :> Some(S_multi_city)) @@ ("multi_city_segments" :> segs)
    @@ ("flexible_dates" :> flex)
MultiIntents ==
    {MultiIntent(Some(l), flex) : l \in SegmentLists, flex \in FlexChoices}
    \cup {MultiIntent(None, Some(FALSE))}

\* intents whose passenger count or country is of another type than the
\* record declares
PlainTrip ==
    TripIntent(<<"given", Some(S_one_way)>>, Some(T_Paris), Some(T_Toronto),
               Some(CanonDate(2025, 3, 1)), None, Some(TRUE),
               <<None, None>>)
PlainMulti ==
    MultiIntent(Some(<<Segment(Some(T_Paris), Some(T_Toronto),
                               Some(CanonDate(2025, 6, 15)))>>), Some(FALSE))
TypedIntents ==
    {("adults" :> Typed("str", <<"t","w","o">>)) @@ PlainTrip,
     ("adults" :> Typed("str", <<" ","2">>)) @@ PlainTrip,
     ("adults" :> Typed("bool", TRUE)) @@ PlainTrip,
     ("gl" :> Typed("int", 5)) @@ PlainTrip,
     ("adults" :> Typed("str", <<"0","-","0","1">>)) @@ PlainTrip,
     ("adults" :> Typed("str", <<"0","-","1">>)) @@ PlainTrip,
     ("adults" :> Typed("str", <<"0","-","0","1">>)) @@ PlainMulti,
     ("adults" :> Typed("str", <<"t","w","o">>)) @@ PlainMulti}

Intents == TripIntents \cup MultiIntents \cup TypedIntents

\* the answers the service may give
T_UNKNOWN == <<"U","N","K","N","O","W","N">>
CityAnswers == {LLMRaises, LLMText(T_UNKNOWN),
                LLMText(<<" ","y","x","u","\n">>)}
DateAnswers == {LLMRaises, LLMText(CanonDate(2025, 7, 1)),
                LLMText(FreeText(9))}
IntentAnswers == {LLMRaises, LLMText(<<"{", "J", "}">>),
                  LLMText(<<"t", "{", "J", "}", "t">>),
                  LLMText(<<"J">>), LLMText(<<"{", "J">>),
                  LLMText(<<"{", "J", "t", "}">>),
                  LLMText(<<"{", "}">>),
                  LLMText(<<"{", "J", "}", "t", "{", "}">>)}

\* the places of a build that ask the service
CityAsks(city) ==
    /\ ~IsNone(city)
    /\ city_to_iata(city, LLMRaises).calls # <<>>
DateAsks(date) == parse_date(date, LLMRaises).calls # <<>>
CityAnswersFor(city) == IF CityAsks(city) THEN CityAnswers ELSE {LLMRaises}
DateAnswersFor(date) == IF DateAsks(date) THEN DateAnswers ELSE {LLMRaises}
SegAnswersFor(seg) ==
    [dep : CityAnswersFor(dict_get(seg, "departure", Some(<<>>))),
     arr : CityAnswersFor(dict_get(seg, "arrival", Some(<<>>))),
     date : DateAnswersFor(dict_get(seg, "date", Some(EmptyText)))]
SegsOf(i) == LET s == dict_get(i, "multi_city_segments", None)
             IN  IF IsNone(s) THEN <<>> ELSE Val(s)
LLMAnswersFor(i) ==
    {[dep |-> d, arr |-> a, out |-> o, ret |-> r, segs |-> sg] :
        d \in CityAnswersFor(dict_get(i, "departure_city", None)),
        a \in CityAnswersFor(dict_get(i, "arrival_city", None)),
        o \in DateAnswersFor(dict_get(i, "outbound_date", Some(EmptyText))),
        r \in DateAnswersFor(dict_get(i, "return_date", Some(EmptyText))),
        sg \in {q \in [1..Len(SegsOf(i)) -> UNION {SegAnswersFor(SegsOf(i)[k]) :
                                              k \in 1..Len(SegsOf(i))}] :
                   \A k \in 1..Len(SegsOf(i)) : q[k] \in SegAnswersFor(SegsOf(i)[k])}}


(***************************************************************************)
(* The specifications                                                      *)
(***************************************************************************)
NoOut == [params_list |-> <<>>, errors |-> <<>>, calls |-> <<>>,
          logs |-> <<>>]
NoAnswers == [dep |-> LLMRaises, arr |-> LLMRaises, out |-> LLMRaises,
              ret |-> LLMRaises, segs |-> <<>>]

BuildIdle ==
    /\ intent = EmptyDict
    /\ stage = "new"
    /\ response = LLMRaises
    /\ answers = NoAnswers
    /\ out = NoOut


\* the key computation on pairs of records
UnitIdle == given = None /\ reply = LLMRaises /\ returned = None

MaxKw == 3

\* the arguments every record of the exploration is built with
BaseKw == << <<"type", Some(1)>>, <<"departure_id", Some(YOW)>>,
             <<"arrival_id", Some(PEK_PKX)>>,
             <<"outbound_date", Some(CanonDate(2026, 5, 25))>> >>
\* the optional arguments: each may be omitted, passed as None or passed
KwPairs == {<<"return_date", None>>,
            <<"return_date", Some(CanonDate(2026, 6, 12))>>,
            <<"gl", Some(<<"c","a">>)>>,
            <<"gl", Some(<<"u","s">>)>>,
            <<"adults", Some(1)>>, <<"sort_by", Some(2)>>}
KwInputs ==
    {kw \in UNION {[1..n -> KwPairs] : n \in 0..MaxKw} :
        \A i, j \in 1..Len(kw) : i # j => kw[i][1] # kw[j][1]}

KeyIdle == /\ kwFirst = <<>> /\ kwSecond = <<>>
           /\ keyFirst = None /\ keySecond = None
CacheIdle ==
    /\ apiKey = TRUE /\ redisUrl = TRUE /\ redisUp = TRUE /\ client = FALSE
    /\ cache = [k \in CacheKeys |-> None]
    /\ now = 0
    /\ pc = [p \in Procs |-> "idle"]
    /\ params = [p \in Procs |-> RecA]
    /\ seen = [p \in Procs |-> NotCalled]
    /\ fetched = [p \in Procs |-> 0]
    /\ fetchVal = [p \in Procs |-> None]
    /\ result = [p \in Procs |-> None]
    /\ raised = [p \in Procs |-> ""]
    /\ warned = [p \in Procs |-> {}]

KeyInit ==
    /\ kwFirst \in KwInputs
    /\ kwSecond \in KwInputs
    /\ keyFirst = None
    /\ keySecond = None
    /\ CacheIdle
    /\ BuildIdle
    /\ UnitIdle

FirstRecord == GoogleFlightsSearchParams(BaseKw \o kwFirst)
SecondRecord == GoogleFlightsSearchParams(kwSecond \o BaseKw)

\* _generate_cache_key applied to the first record
GenerateFirst ==
    /\ keyFirst = None
    /\ FirstRecord.ok
    /\ keyFirst' = Some(_generate_cache_key(FirstRecord))
    /\ UNCHANGED <<kwFirst, kwSecond, keySecond, cacheVars, buildVars, unitVars>>

\* _generate_cache_key applied to the second record
GenerateSecond ==
    /\ keySecond = None
    /\ SecondRecord.ok
    /\ keySecond' = Some(_generate_cache_key(SecondRecord))
    /\ UNCHANGED <<kwFirst, kwSecond, keyFirst, cacheVars, buildVars, unitVars>>

KeyNext == GenerateFirst \/ GenerateSecond

\* the keyword arguments a caller may construct a record with: each may be
\* omitted
RecordTypeChoices == {<<>>} \cup {<< <<"type", t>> >> : t \in {None, Some(1), Some(2), Some(3)}}
RecordDepChoices == {<<>>, << <<"departure_id", Some(YOW)>> >>,
                     << <<"departure_id", Some(lower(YOW))>> >>}
RecordArrChoices == {<<>>, << <<"arrival_id", Some(PEK_PKX)>> >>}
RecordOutChoices == {<<>>, << <<"outbound_date", Some(CanonDate(2026, 5, 25))>> >>}
RecordMultiChoices ==
    {<<>>, << <<"multi_city_json", Some(<<>>)>> >>,
     << <<"multi_city_json",
          Some(<<MultiCityFlightSegment(YOW, PEK_PKX, CanonDate(2026, 5, 25),
                                        None).val>>)>> >>}
\* sort_by within and outside its values, and the two names async_ may be
\* passed by
RecordOtherChoices ==
    {<<>>, << <<"sort_by", Some(2)>> >>, << <<"sort_by", Some(7)>> >>,
     << <<"async", Some(TRUE)>> >>, << <<"async_", Some(TRUE)>> >>}
\* values of another type than the field declares
RecordTypedChoices ==
    {<<>>,
     << <<"adults", Typed("str", <<"t","w","o">>)>> >>,
     << <<"adults", Typed("str", <<"2">>)>> >>,
     << <<"adults", Typed("str", <<"+","1","_","0","0","0",".","0","\n">>)>> >>,
     << <<"adults", Typed("str", <<"0","-","1">>)>> >>,
     << <<"adults", Typed("str", <<"0","_","_","1">>)>> >>,
     << <<"adults", Typed("str", <<"0","-","0","1">>)>> >>,
     << <<"adults", Typed("str", <<"-","0","1">>)>> >>,
     << <<"bags", Typed("str", <<"0","-","0","0">>)>> >>,
     << <<"adults", Typed("str", <<"0","-","0">>)>> >>,
     << <<"adults", Typed("str", <<"1",".">>)>> >>,
     << <<"adults", Typed("str", <<"+","+","1">>)>> >>,
     << <<"adults", Typed("str", <<"+","-","1">>)>> >>,
     << <<"adults", Typed("str", <<"1","_","_","0">>)>> >>,
     << <<"adults", Typed("bool", TRUE)>> >>,
     << <<"stops", Typed("bool", FALSE)>> >>,
     << <<"sort_by", Typed("bool", FALSE)>> >>,
     << <<"max_price", Typed("str", <<"c","h","e","a","p">>)>> >>,
     << <<"gl", Typed("int", 5)>> >>,
     << <<"currency", Typed("bool", TRUE)>> >>,
     << <<"show_hidden", Typed("str", <<"m","a","y","b","e">>)>> >>,
     << <<"show_hidden", Typed("str", <<"Y","e","s">>)>> >>,
     << <<"no_cache", Typed("int", 1)>> >>,
     << <<"no_cache", Typed("int", 2)>> >>,
     << <<"outbound_times", Typed("int", 818)>> >>,
     << <<"sort_by", Typed("bool", TRUE)>> >>,
     << <<"sort_by", Typed("str", <<"2">>)>> >>}
RecordKwInputs ==
    {t \o d \o a \o o \o m \o x :
        t \in RecordTypeChoices, d \in RecordDepChoices,
        a \in RecordArrChoices, o \in RecordOutChoices,
        m \in RecordMultiChoices, x \in RecordOtherChoices}
    \cup {BaseKw \o y : y \in RecordTypedChoices}

RecordInit ==
    /\ given \in RecordKwInputs
    /\ reply = LLMRaises
    /\ returned = None
    /\ CacheIdle
    /\ KeyIdle
    /\ BuildIdle

\* GoogleFlightsSearchParams(**given)
Construct ==
    /\ returned = None
    /\ returned' = Some(GoogleFlightsSearchParams(given))
    /\ UNCHANGED <<given, reply, cacheVars, keyVars, buildVars>>

RecordNext == Construct

\* the names city_to_iata is applied to: every key of the table in three
\* letter cases, names that contain a key or are contained in keys, names the
\* table does not know, the empty and the blank name, and no name
Capitalised(s) == UpperChar(Head(s)) \o Tail(s)
TableKeys == {COMMON_AIRPORTS[i][1] : i \in 1..Len(COMMON_AIRPORTS)}
CityNames ==
    UNION {{k, upper(k), Capitalised(k)} : k \in TableKeys}
    \cup {<<"n","e","w"," ","y","o","r","k"," ","c","i","t","y">>,
          <<"Y","o","r","k">>, <<"o","n">>, <<" ","P","a","r","i","s"," ">>,
          <<"h","o","n","g"," ","U+212A","o","n","g">>,
          <<"U+0130","s","t","a","n","b","u","l">>,
          T_Unknownsville, T_Gotham, T_Blank, <<>>}
CityInputs == {None} \cup {Some(n) : n \in CityNames}
CityReplies ==
    {LLMRaises, LLMText(T_UNKNOWN), LLMText(<<" ","y","x","u">>),
     LLMText(<<"j","f","k",","," ","l","g","a">>),
     LLMText(<<"J","F","K",",","L","G","A","X">>),
     LLMText(<<"J","F","K",",">>),
     LLMText(<<"Y","1","Z">>), LLMText(<<"U+00E9","l","U+00E9">>), LLMText(<<>>),
     LLMText(<<"\t","y","y","z",",","y","t","z","\r","\n">>),
     LLMText(<<"Y","Y","Z","U+001C">>), LLMText(<<"U+00DF","a">>),
     LLMText(<<"U+6771","U+4EAC","U+90FD">>)}

ResolveInit ==
    /\ given \in CityInputs
    /\ reply \in CityReplies
    /\ returned = None
    /\ CacheIdle
    /\ KeyIdle
    /\ BuildIdle

\* city_to_iata(given), the service answering reply if asked
Resolve ==
    /\ returned = None
    /\ returned' = Some(city_to_iata(given, reply))
    /\ UNCHANGED <<given, reply, cacheVars, keyVars, buildVars>>

ResolveNext == Resolve

\* the texts parse_date is applied to: texts of the form dddd-dd-dd, valid
\* dates or not, texts in the other formats, free text, the empty text, none
CanonTexts ==
    {CanonDate(y, m, d) : y \in {1, 999, 1000, 2024, 2025, 9999},
                          m \in {1, 2, 4, 12, 13},
                          d \in {1, 28, 29, 30, 31}}
OtherTexts ==
    {DateText("slash4", 1, 2, 2025), DateText("slash4", 13, 2, 2025),
     DateText("slash4", 2, 30, 2025), DateText("slash4", 1, 2, 999),
     DateText("slash2", 1, 2, 25), DateText("slash2", 1, 2, 70),
     DateText("ymdslash", 2025, 1, 2), DateText("ymdslash", 999, 1, 2),
     DateText("long_c", 1, 2, 2025), DateText("abbr_c", 1, 2, 2025),
     DateText("long", 1, 2, 2025), DateText("abbr", 2, 29, 2024),
     DateText("long_c", 5, 31, 2025), DateText("abbr", 5, 1, 999),
     DateText("dash1", 2025, 1, 2), DateText("dash1", 2025, 2, 30),
     DateText("dash1", 999, 1, 2),
     DateText("slash4_d2", 1, 2, 2025), DateText("slash4_d2", 13, 2, 2025),
     DateText("slash4_d1", 12, 1, 2025), DateText("slash4_d1", 12, 13, 2025),
     DateText("slash2_d2", 1, 2, 25), DateText("slash2_d1", 12, 1, 70),
     DateText("canon_y", 2025, 1, 2), DateText("canon_y", 2025, 2, 29),
     DateText("canon_x", 2025, 1, 2),
     DateText("unpadded", 999, 1, 2), DateText("blank", 0, 0, 0),
     FreeText(1), EmptyText}
DateInputs == {None} \cup {Some(t) : t \in CanonTexts \cup OtherTexts}
DateReplies == {LLMRaises, LLMText(CanonDate(2025, 7, 1)),
                LLMText(CanonDate(2025, 2, 30)), LLMText(FreeText(9))}

DateInit ==
    /\ given \in DateInputs
    /\ reply \in DateReplies
    /\ returned = None
    /\ CacheIdle
    /\ KeyIdle
    /\ BuildIdle

\* parse_date(given), the service answering reply if asked
Normalise ==
    /\ returned = None
    /\ returned' = Some(parse_date(given, reply))
    /\ UNCHANGED <<given, reply, cacheVars, keyVars, buildVars>>

DateNext == Normalise

BuildInit ==
    /\ intent \in Intents
    /\ stage = "new"
    /\ response = LLMRaises
    /\ answers = NoAnswers
    /\ out = NoOut
    /\ CacheIdle
    /\ KeyIdle
    /\ UnitIdle

\* build_search_params_from_intent(intent)
BuildParams ==
    /\ stage = "new"
    /\ \E llm \in LLMAnswersFor(intent) :
          /\ answers' = llm
          /\ out' = build_search_params_from_intent(intent, llm)
    /\ stage' = "built"
    /\ UNCHANGED <<intent, response, cacheVars, keyVars, unitVars>>

\* the answers of the service to the requests of the build, which runs on the
\* object the extraction gave
InterpretAnswers(resp, body) ==
    IF IsNone(parse_user_input(resp, body).intent_data)
    THEN {NoAnswers}
    ELSE IF IsObject(parse_user_input(resp, body).intent_data, body)
    THEN LLMAnswersFor(body)
    ELSE {NoAnswers}

\* interpret_user_requirements(user_input), the service answering resp
Interpret ==
    /\ stage = "new"
    /\ \E resp \in IntentAnswers :
          /\ response' = resp
          /\ \E llm \in InterpretAnswers(resp, intent) :
                /\ answers' = llm
                /\ out' = interpret_user_requirements(resp, intent, llm)
    /\ stage' = "interpreted"
    /\ UNCHANGED <<intent, cacheVars, keyVars, unitVars>>

BuildNext == BuildParams \/ Interpret


Init == CacheInit /\ KeyIdle /\ BuildIdle /\ UnitIdle
Next == CacheNext /\ UNCHANGED <<keyVars, buildVars, unitVars>>
Spec == Init /\ [][Next]_vars

SpecKey == KeyInit /\ [][KeyNext]_vars
SpecBuild == BuildInit /\ [][BuildNext]_vars
SpecRecord == RecordInit /\ [][RecordNext]_vars
SpecResolve == ResolveInit /\ [][ResolveNext]_vars
SpecDate == DateInit /\ [][DateNext]_vars

(***************************************************************************)
(* Two pipeline instances searching for equal records at the same time:    *)
(* the API key is set, the cache server answers and the store is empty;    *)
(* the steps of the two calls interleave freely.                           *)
(***************************************************************************)
EqualRecs == {RecA, RecA2}

RaceInit ==
    /\ apiKey = TRUE
    /\ redisUrl = TRUE
    /\ redisUp = TRUE
    /\ client = FALSE
    /\ cache = [k \in CacheKeys |-> None]
    /\ now = 0
    /\ pc = [p \in Procs |-> "idle"]
    /\ params = [p \in Procs |-> RecA]
    /\ seen = [p \in Procs |-> NotCalled]
    /\ fetched = [p \in Procs |-> 0]
    /\ fetchVal = [p \in Procs |-> None]
    /\ result = [p \in Procs |-> None]
    /\ raised = [p \in Procs |-> ""]
    /\ warned = [p \in Procs |-> {}]
    /\ KeyIdle
    /\ BuildIdle
    /\ UnitIdle

RaceRest == UNCHANGED <<keyVars, buildVars, unitVars>>
RaceNext ==
    \/ \E p \in Procs, r \in EqualRecs : Begin(p, r) /\ RaceRest
    \/ \E p \in Procs : Ping(p) /\ RaceRest
    \/ \E p \in Procs : Get(p) /\ RaceRest
    \/ \E p \in Procs : Fetch(p) /\ RaceRest
    \/ \E p \in Procs : Set(p) /\ RaceRest

SpecRace == RaceInit /\ [][RaceNext]_vars

(***************************************************************************)
(* Properties of the cached search                                         *)
(***************************************************************************)
Key(p) == _generate_cache_key(params[p])
Hit(p) == /\ seen[p].st = "blob"
          /\ BlobTruthy(seen[p].blob)
          /\ json_loads(seen[p].blob).ok
CacheFailed(p) == \/ raised[p] = "RedisError"
                  \/ seen[p].st = "raised"
                  \/ seen[p].st = "blob" /\ ~json_loads(seen[p].blob).ok

\* C1: a call of search_google_flights never fails because of the cache: with
\* the API key set, a finished call did not end with the cache client's
\* exception, and a call that met an unreachable cache, a failing get or an
\* unparseable entry invoked the provider once.
C1_CacheNeverFatal ==
    \A p \in Procs :
        (pc[p] = "done" /\ apiKey) =>
            /\ raised[p] # "RedisError"
            /\ (CacheFailed(p) => fetched[p] = 1)

\* C2: a call whose lookup gave a parseable value returns that value and does
\* not invoke the provider; every entry search_google_flights stored is such
\* a value, so a later call with a field-for-field equal record that reads it
\* invokes the provider zero times; equal records share the key.
C2_HitSkipsFetch ==
    /\ \A p \in Procs :
          (pc[p] = "done" /\ Hit(p)) =>
              /\ result[p] = Some(json_loads(seen[p].blob).val)
              /\ fetched[p] = 0
              /\ raised[p] = ""
    /\ \A p \in Procs :
          (pc[p] = "done" /\ seen[p].st = "blob" /\ seen[p].by = "app") =>
              fetched[p] = 0
    /\ \A r1, r2 \in SearchRecs :
          (r1.vals = r2.vals) =>
              _generate_cache_key(r1) = _generate_cache_key(r2)

C2_Witness ==
    \E p \in Procs :
        /\ pc[p] = "done" /\ seen[p].st = "blob" /\ seen[p].by = "app"
        /\ params[p] = RecA2
        /\ fetched[p] = 0 /\ ~IsNone(result[p])

\* C3: on a miss the provider is invoked exactly once and its result is then
\* stored under the record's key; a failing store is only logged and the
\* caller receives the fetched result all the same.
C3_MissState ==
    \A p \in Procs :
        /\ pc[p] = "set" => (fetched[p] = 1 /\ ~IsNone(fetchVal[p]))
        /\ (pc[p] = "done" /\ raised[p] = "" /\ ~Hit(p)) =>
              /\ fetched[p] = 1
              /\ ~IsNone(fetchVal[p])
              /\ result[p] = fetchVal[p]
C3_StoreStep ==
    \A p \in Procs :
        (pc[p] = "set" /\ pc'[p] = "done") =>
            /\ raised'[p] = ""
            /\ result'[p] = fetchVal[p]
            /\ IF "storage" \in warned'[p]
               THEN cache' = cache
               ELSE /\ ~IsNone(cache'[Key(p)])
                    /\ Val(cache'[Key(p)]).blob = json_dumps(Val(fetchVal[p]))
                    /\ \A k \in CacheKeys \ {Key(p)} : cache'[k] = cache[k]
C3_MissFetchesOnceThenStores == []C3_MissState /\ [][C3_StoreStep]_vars

C3_Witness ==
    \E p \in Procs :
        /\ pc[p] = "done" /\ "storage" \in warned[p]
        /\ fetched[p] = 1 /\ ~IsNone(result[p]) /\ result[p] = fetchVal[p]

\* C4: every entry search_google_flights stores carries the configured expiry
\* FLIGHT_CACHE_TTL, so that it is gone once that time has passed.
C4_StoredWithTTL ==
    \A k \in CacheKeys :
        (~IsNone(cache[k]) /\ Val(cache[k]).by = "app") =>
            /\ ~IsNone(Val(cache[k]).exp)
            /\ Val(Val(cache[k]).exp) <= now + FLIGHT_CACHE_TTL


(***************************************************************************)
(* Properties of the cache key                                             *)
(***************************************************************************)
NonNullFields(rec) == {f \in Fields : ~IsNone(rec.vals[f])}
AgreeOnNonNull(r1, r2) ==
    /\ NonNullFields(r1) = NonNullFields(r2)
    /\ \A f \in NonNullFields(r1) : r1.vals[f] = r2.vals[f]

\* C5: two records that agree on every non-null field get the same key,
\* whether a null field was passed or omitted and in whatever order the
\* arguments were given.
C5_EqualRecordsEqualKeys ==
    (~IsNone(keyFirst) /\ ~IsNone(keySecond)
        /\ AgreeOnNonNull(FirstRecord, SecondRecord))
    => keyFirst = keySecond

C5_Witness ==
    /\ ~IsNone(keyFirst) /\ ~IsNone(keySecond)
    /\ keyFirst = keySecond
    /\ kwFirst = << <<"return_date", None>>, <<"adults", Some(1)>> >>
    /\ kwSecond = << <<"adults", Some(1)>>, <<"gl", Some(<<"c","a">>)>> >>


(***************************************************************************)
(* Properties of the parameter builder                                     *)
(***************************************************************************)
\* build_search_params_from_intent ran on the intent (directly, or inside
\* interpret_user_requirements after a successful extraction)
Extracted == IsObject(parse_user_input(response, intent).intent_data, intent)
Ran == stage = "built" \/ (stage = "interpreted" /\ Extracted)

FlightType == dict_get(intent, "flight_type", Some(S_one_way))
TripBranch == ~IsNone(FlightType) /\ lower(Val(FlightType)) # S_multi_city
IsRoundTrip == ~IsNone(FlightType) /\ lower(Val(FlightType)) = S_round_trip
Flexible == TruthyBool(dict_get(intent, "flexible_dates", None))

DepCity == dict_get(intent, "departure_city", None)
ArrCity == dict_get(intent, "arrival_city", None)
OutText == dict_get(intent, "outbound_date", Some(EmptyText))
RetText == dict_get(intent, "return_date", Some(EmptyText))
CityUnresolved(city, resp) ==
    ~Truthy(city) \/ IsNone(city_to_iata(city, resp).val)
DepBad == CityUnresolved(DepCity, answers.dep)
ArrBad == CityUnresolved(ArrCity, answers.arr)
OutResolved == parse_date(OutText, answers.out).val
RetResolved == IF IsRoundTrip THEN parse_date(RetText, answers.ret).val
               ELSE None
OutBad == IsNone(OutResolved)
RetGiven == IsRoundTrip /\ ~IsNone(RetText) /\ Val(RetText).shape # "empty"
BothAirlines(vals) ==
    Truthy(vals["exclude_airlines"]) /\ Truthy(vals["include_airlines"])
IntentBothAirlines ==
    /\ Truthy(dict_get(intent, "exclude_airlines", None))
    /\ Truthy(dict_get(intent, "include_airlines", None))

\* the calendar, day after day
IsCalendarDate(t) ==
    /\ t.shape = "canon"
    /\ t.a >= 1 /\ t.a <= 9999 /\ t.b >= 1 /\ t.b <= 12
    /\ t.c >= 1 /\ t.c <= days_in_month(t.a, t.b)
NextDay(t, u) ==
    /\ IsCalendarDate(t) /\ IsCalendarDate(u)
    /\ \/ u.a = t.a /\ u.b = t.b /\ u.c = t.c + 1
       \/ /\ t.c = days_in_month(t.a, t.b)
          /\ u.c = 1
          /\ \/ u.a = t.a /\ u.b = t.b + 1
             \/ t.b = 12 /\ u.b = 1 /\ u.a = t.a + 1
HasNeighbours(t) ==
    /\ IsCalendarDate(t)
    /\ ~(t.a = 1 /\ t.b = 1 /\ t.c = 1)
    /\ ~(t.a = 9999 /\ t.b = 12 /\ t.c = 31)
\* a calendar date from 1000-01-02 to 9999-12-30: the day before it and the
\* day after it exist and strftime writes both with four digits of year
InShiftRange(t) ==
    /\ HasNeighbours(t)
    /\ t.a >= 1000
    /\ ~(t.a = 1000 /\ t.b = 1 /\ t.c = 1)
\* u is t moved by offset (-1 or +1)
Shifted(t, u, offset) == IF offset = 1 THEN NextDay(t, u) ELSE NextDay(u, t)
ShiftedOpt(t, u, offset) ==
    IF IsNone(t) THEN IsNone(u)
    ELSE ~IsNone(u) /\ Shifted(Val(t), Val(u), offset)

DateFields == {"outbound_date", "return_date"}
IsVariantOf(base, variant, offset) ==
    /\ variant.ok
    /\ \A f \in Fields \ DateFields : variant.vals[f] = base.vals[f]
    /\ ShiftedOpt(base.vals["outbound_date"],
                  variant.vals["outbound_date"], offset)
    /\ ShiftedOpt(base.vals["return_date"],
                  variant.vals["return_date"], offset)
IsBaseOfIntent(base) ==
    /\ base.ok
    /\ base.vals["outbound_date"] = OutResolved
    /\ base.vals["return_date"] = RetResolved
    /\ base.vals["departure_id"] = city_to_iata(DepCity, answers.dep).val
    /\ base.vals["arrival_id"] = city_to_iata(ArrCity, answers.arr).val
ExpectedList(l) ==
    IF Flexible
    THEN /\ Len(l) = 3
         /\ IsBaseOfIntent(l[1])
         /\ IsVariantOf(l[1], l[2], -1)
         /\ IsVariantOf(l[1], l[3], 1)
    ELSE Len(l) = 1 /\ IsBaseOfIntent(l[1])

\* every value the intent holds for a field of the record is one the field's
\* declared type accepts
IntentTypesValid ==
    \A f \in DOMAIN intent \cap Fields :
        validate_type(FieldType(f), intent[f]).ok

C6_Resolves ==
    /\ Ran /\ TripBranch
    /\ ~DepBad /\ ~ArrBad /\ ~OutBad
    /\ (RetGiven => ~IsNone(RetResolved))

\* C6 as stated: a one_way or round_trip intent whose cities and dates resolve
\* yields base, -1 day, +1 day when flexible_dates is set, and one record
\* otherwise.
C6_ThreeRecordsWhenResolved == C6_Resolves => ExpectedList(out.params_list)

\* C6: a one_way or round_trip intent whose cities resolve, whose base record
\* passes validation and, when flexible_dates is set, whose outbound and
\* return dates are calendar dates from 1000-01-02 to 9999-12-30 written
\* dddd-dd-dd in the digits 0-9, yields exactly base, -1 day, +1 day (every
\* other field equal, both dates moved by the same offset across month and
\* year ends); without flexible_dates it yields exactly the base record.
C6_ThreeRecordsWhenValid ==
    (/\ C6_Resolves
     /\ ~IntentBothAirlines /\ IntentTypesValid
     /\ (Flexible =>
            /\ InShiftRange(Val(OutResolved))
            /\ (~IsNone(RetResolved) => InShiftRange(Val(RetResolved)))))
    => ExpectedList(out.params_list)

C6_Witness ==
    /\ stage = "built" /\ Flexible /\ IsRoundTrip
    /\ OutText = Some(CanonDate(2024, 12, 31))
    /\ RetText = Some(CanonDate(2024, 12, 31))
    /\ Len(out.params_list) = 3
    /\ out.params_list[2].vals["outbound_date"] = Some(CanonDate(2024, 12, 30))
    /\ out.params_list[3].vals["outbound_date"] = Some(CanonDate(2025, 1, 1))
    /\ out.params_list[2].vals["return_date"] = Some(CanonDate(2024, 12, 30))
    /\ out.params_list[3].vals["return_date"] = Some(CanonDate(2025, 1, 1))

\* C7: when no query can be built from a successfully extracted intent,
\* interpret_user_requirements returns an empty list together with a
\* non-empty list of diagnostics.
C7_EmptyResultHasDiagnostics ==
    (stage = "interpreted" /\ Extracted /\ out.params_list = <<>>)
    => out.errors # <<>>

\* C8: for a one_way or round_trip intent, a departure city, arrival city or
\* outbound date that is missing or cannot be resolved gives the empty list.
C8_MandatoryFieldsAbort ==
    (Ran /\ TripBranch /\ (DepBad \/ ArrBad \/ OutBad))
    => out.params_list = <<>>

C8_Witness ==
    /\ stage = "built" /\ TripBranch /\ Flexible
    /\ ~DepBad /\ ~ArrBad
    /\ OutText = Some(FreeText(1)) /\ OutBad
    /\ out.params_list = <<>>
    /\ out.calls # <<>>

\* C9: every record of the one_way / round_trip branch has type 1 exactly
\* when flight_type is round_trip and 2 otherwise; when it is not round_trip
\* the return date is null in the base and in every variant, and the service
\* is not asked about the intent's return date.
C9_TypeAndReturn ==
    (Ran /\ TripBranch) =>
        /\ \A k \in 1..Len(out.params_list) :
              /\ out.params_list[k].vals["type"]
                    = Some(IF IsRoundTrip THEN 1 ELSE 2)
              /\ ~IsRoundTrip => IsNone(out.params_list[k].vals["return_date"])
        /\ ~IsRoundTrip =>
              \A k \in 1..Len(out.calls) :
                  out.calls[k][1] = "date" => Some(out.calls[k][2]) # RetText

C9_Witness ==
    /\ stage = "built" /\ TripBranch /\ ~IsRoundTrip /\ Flexible
    /\ RetText = Some(FreeText(2))
    /\ Len(out.params_list) = 3
    /\ \A k \in 1..3 : /\ out.params_list[k].vals["type"] = Some(2)
                       /\ IsNone(out.params_list[k].vals["return_date"])

\* C10: no record build returns, and no record the constructor accepts, has
\* both exclude_airlines and include_airlines; an intent with both gives no
\* record, and a record that is valid is still returned.
C10_AirlineFiltersExclusive ==
    /\ (stage # "new") =>
          \A k \in 1..Len(out.params_list) :
              /\ out.params_list[k].ok
              /\ ~BothAirlines(out.params_list[k].vals)
    /\ (Ran /\ TripBranch /\ IntentBothAirlines) => out.params_list = <<>>
    /\ (C6_Resolves /\ ~IntentBothAirlines /\ IntentTypesValid)
          => Len(out.params_list) >= 1

C10_Witness ==
    /\ stage = "built" /\ C6_Resolves /\ Flexible
    /\ IntentBothAirlines
    /\ out.params_list = <<>>

(***************************************************************************)
(* Properties of the construction of a record                              *)
(***************************************************************************)
Constructed == ~IsNone(returned) /\ Val(returned).ok
FieldSet(f) == ~IsNone(Val(returned).vals[f])

\* C11: a record is constructed only if outbound_date is there when type is 1
\* or 2, multi_city_json has a segment when type is 3, and multi_city_json is
\* not set together with departure_id or arrival_id.
C11_RequiredFieldsEnforced ==
    Constructed =>
        /\ Val(returned).vals["type"] \in {Some(1), Some(2)}
              => FieldSet("outbound_date")
        /\ Val(returned).vals["type"] = Some(3)
              => /\ FieldSet("multi_city_json")
                 /\ Len(Val(Val(returned).vals["multi_city_json"])) > 0
        /\ ~(/\ FieldSet("departure_id") \/ FieldSet("arrival_id")
             /\ FieldSet("multi_city_json"))

(***************************************************************************)
(* Properties of the multi-city build                                      *)
(***************************************************************************)
IsMultiCity == ~IsNone(FlightType) /\ lower(Val(FlightType)) = S_multi_city

\* the field of a segment is there: not absent, not null, not empty
SegGiven(seg, f) ==
    /\ f \in DOMAIN seg
    /\ ~IsNone(seg[f])
    /\ IF f = "date" THEN Val(seg[f]).shape # "empty" ELSE Len(Val(seg[f])) > 0

\* the three fields of the segment are there and each resolves
SegGood(seg, resp) ==
    /\ SegGiven(seg, "departure") /\ SegGiven(seg, "arrival")
    /\ SegGiven(seg, "date")
    /\ ~IsNone(city_to_iata(seg["departure"], resp.dep).val)
    /\ ~IsNone(city_to_iata(seg["arrival"], resp.arr).val)
    /\ ~IsNone(parse_date(seg["date"], resp.date).val)

SegResolved(seg, resp) ==
    MultiCityFlightSegment(Val(city_to_iata(seg["departure"], resp.dep).val),
                           Val(city_to_iata(seg["arrival"], resp.arr).val),
                           Val(parse_date(seg["date"], resp.date).val),
                           dict_get(seg, "times", None)).val

\* the resolved segments of the intent, from position k on, bad ones left out
RECURSIVE KeptSegments(_)
KeptSegments(k) ==
    IF k > Len(SegsOf(intent)) THEN <<>>
    ELSE (IF SegGood(SegsOf(intent)[k], answers.segs[k])
          THEN <<SegResolved(SegsOf(intent)[k], answers.segs[k])>>
          ELSE <<>>) \o KeptSegments(k + 1)

\* C12: a multi_city build that has a resolvable segment gives one record
\* whose segments are exactly the resolvable segments of the intent, in order:
\* a segment with an absent, null, empty or unresolvable field is left out,
\* adds no airports of its own and does not empty the result.
C12_BadSegmentsDropped ==
    (stage = "built" /\ IsMultiCity /\ KeptSegments(1) # <<>>)
        => /\ Len(out.params_list) = 1
           /\ out.params_list[1].vals["multi_city_json"] = Some(KeptSegments(1))

\* the three conversions of the segment at position k all give a value
SegSurvives(k) ==
    SegmentOf(SegsOf(intent)[k], answers.segs[k]).val # None
NoSegmentSurvives == \A k \in 1..Len(SegsOf(intent)) : ~SegSurvives(k)

\* C13: a multi_city build whose segment list is missing, empty or has no
\* segment surviving resolution returns the empty list.
C13_NoSegmentsEmptyResult ==
    (stage = "built" /\ IsMultiCity /\ NoSegmentSurvives)
        => out.params_list = <<>>

C13_Witness ==
    /\ stage = "built" /\ IsMultiCity
    /\ Len(SegsOf(intent)) = 2
    /\ NoSegmentSurvives
    /\ out.calls # <<>>
    /\ out.params_list = <<>>

(***************************************************************************)
(* Properties of the extraction of the intent                              *)
(***************************************************************************)
\* the position of the "}" closing the region open at depth before position i
\* (0 when there is none)
RECURSIVE CloseOf(_, _, _)
CloseOf(text, i, depth) ==
    IF i > Len(text) THEN 0
    ELSE IF text[i] = "{" THEN CloseOf(text, i + 1, depth + 1)
    ELSE IF text[i] = "}"
    THEN (IF depth = 1 THEN i ELSE CloseOf(text, i + 1, depth - 1))
    ELSE CloseOf(text, i + 1, depth)

\* the first balanced {...} region of the text
FirstOpen(text) ==
    CHOOSE k \in 1..Len(text) :
        text[k] = "{" /\ \A m \in 1..(k - 1) : text[m] # "{"
FirstBalanced(text) ==
    IF \A k \in 1..Len(text) : text[k] # "{" THEN None
    ELSE IF CloseOf(text, FirstOpen(text) + 1, 1) = 0 THEN None
    ELSE Some(SubSeq(text, FirstOpen(text),
                     CloseOf(text, FirstOpen(text) + 1, 1)))

\* C14: when the first balanced region of the response is the JSON object of
\* the intent, whatever commentary, braces or further objects surround it, the
\* extraction reports no error and the pipeline builds from that intent.
C14_FirstBalancedRegion ==
    (/\ stage = "interpreted"
     /\ ~response.raised
     /\ FirstBalanced(ResponseText(response.text, intent))
            = Some(<<"{">> \o MemberTokens(intent) \o <<"}">>))
        => /\ out.errors = <<>>
           /\ out.params_list =
                  build_search_params_from_intent(intent, answers).params_list

\* the extraction fails: the call raises, the response has no {...} region,
\* or the region is not valid JSON
ExtractionFails ==
    \/ response.raised
    \/ IsNone(json_match(ResponseText(response.text, intent)))
    \/ IsNone(json_loads_object(
                  Val(json_match(ResponseText(response.text, intent))), intent))

\* C15: when the extraction fails the pipeline returns no record and a list of
\* errors that starts with the error of the extraction, and whatever happens
\* the service is asked for the extraction exactly once.
C15_ExtractionFailureReported ==
    stage = "interpreted" =>
        /\ Len(SelectSeq(out.calls, LAMBDA c : c[1] = "extract")) = 1
        /\ ExtractionFails =>
              /\ out.params_list = <<>>
              /\ Len(out.errors) = 2
              /\ out.errors[1] \in {"Error parsing user input",
                                    "Failed to extract JSON from LLM response",
                                    "Failed to parse LLM response as JSON"}
              /\ out.errors[2] = "Failed to parse user requirements"
              /\ out.calls = << <<"extract">> >>

C15_Witness ==
    /\ stage = "interpreted"
    /\ response = LLMText(<<"{", "J", "t", "}">>)
    /\ out.params_list = <<>>
    /\ Len(out.errors) = 2

(***************************************************************************)
(* Properties of city_to_iata                                              *)
(***************************************************************************)
Resolved == ~IsNone(returned) /\ ~IsNone(given)
KeyIndex(name) ==
    CHOOSE i \in 1..Len(COMMON_AIRPORTS) : COMMON_AIRPORTS[i][1] = lower(name)

\* C16: applied to a key of the table in any letter case, city_to_iata returns
\* the codes of that entry, which are uppercase, and makes no request to the
\* service.
C16_TableKeyAnyCase ==
    (Resolved /\ lower(Val(given)) \in TableKeys)
        => /\ Val(returned).val = Some(COMMON_AIRPORTS[KeyIndex(Val(given))][2])
           /\ upper(Val(Val(returned).val)) = Val(Val(returned).val)
           /\ Val(returned).calls = <<>>
           /\ ~Val(returned).raised

C16_Witness ==
    /\ Resolved
    /\ given = Some(<<"H","O","N","G"," ","K","O","N","G">>)
    /\ reply = LLMText(<<" ","y","x","u">>)
    /\ Val(returned).val = Some(<<"H","K","G">>)
    /\ Val(returned).calls = <<>>

\* the pattern ^[A-Z]{3}$
AsciiUpper == {UpperSeq[i] : i \in 1..26}
MatchesIataPattern(code) ==
    Len(code) = 3 /\ \A i \in 1..3 : code[i] \in AsciiUpper
CodesOf(v) == split(v, ",")

\* the tokens of the answer of the service, as line 121 and 123 cut them
ReplyTokens ==
    LET raw == split(upper(strip(reply.text)), ",")
    IN  [i \in 1..Len(raw) |-> strip(raw[i])]

\* C17: every code city_to_iata returns matches ^[A-Z]{3}$; and when the
\* service is asked, an answer is returned only if each of its tokens is three
\* uppercase letters, while UNKNOWN, an invalid token or a failure of the call
\* give None and no exception.
C17_CodesAreIata ==
    Resolved =>
        /\ ~IsNone(Val(returned).val) =>
              \A i \in 1..Len(CodesOf(Val(Val(returned).val))) :
                  MatchesIataPattern(CodesOf(Val(Val(returned).val))[i])
        /\ Val(returned).calls # <<>> =>
              /\ ~Val(returned).raised
              /\ (reply.raised \/ reply.text = T_UNKNOWN) =>
                     IsNone(Val(returned).val)
              /\ (~reply.raised /\ ~IsNone(Val(returned).val)) =>
                     \A i \in 1..Len(ReplyTokens) :
                         Len(ReplyTokens[i]) = 3 /\ isalpha(ReplyTokens[i])

\* the name as the table stages see it, and the keys that match it
Normalised == strip(lower(Val(given)))
KeyMatches(i) ==
    \/ COMMON_AIRPORTS[i][1] = Normalised
    \/ Contains(Normalised, COMMON_AIRPORTS[i][1])
    \/ Contains(COMMON_AIRPORTS[i][1], Normalised)
MatchingKeys == {i \in 1..Len(COMMON_AIRPORTS) : KeyMatches(i)}
FirstMatchingKey == CHOOSE i \in MatchingKeys : \A j \in MatchingKeys : i <= j

\* C18: the service is asked only when no key of the table equals, contains
\* or is contained in the name, and then once; otherwise the entry of the
\* equal key, or else of the first matching key in table order, is returned.
C18_FirstSuccessWins ==
    Resolved =>
        /\ Len(Val(returned).calls) <= 1
        /\ (Val(returned).calls # <<>>) <=> (MatchingKeys = {})
        /\ Normalised \in TableKeys =>
              Val(returned).val = Some(COMMON_AIRPORTS[KeyIndex(Normalised)][2])
        /\ (MatchingKeys # {} /\ Normalised \notin TableKeys) =>
              Val(returned).val = Some(COMMON_AIRPORTS[FirstMatchingKey][2])
        /\ MatchingKeys = {} => Val(returned).val = LLMCodes(reply)

C18_Witness ==
    /\ Resolved
    /\ given = Some(<<"o","n">>)
    /\ Cardinality(MatchingKeys) > 1
    /\ reply = LLMText(<<" ","y","x","u">>)
    /\ Val(returned).val = Some(<<"Y","Y","Z",",","Y","T","Z">>)
    /\ Val(returned).calls = <<>>

(***************************************************************************)
(* Properties of parse_date                                                *)
(***************************************************************************)
DateDone == ~IsNone(returned)
IsCanonical(t) == t.shape = "canon" /\ ValidDate(t.a, t.b, t.c)

\* C19: parse_date gives a canonical date back unchanged without asking the
\* service, and applied to a value it has returned it gives that value back,
\* again without asking.
C19_CanonicalFixedPoint ==
    DateDone =>
        /\ (~IsNone(given) /\ IsCanonical(Val(given))) =>
              Val(returned) = [val |-> given, calls |-> <<>>]
        /\ ~IsNone(Val(returned).val) =>
              parse_date(Val(returned).val, reply)
                  = [val |-> Val(returned).val, calls |-> <<>>]

\* C20: every value parse_date returns, other than None, is a valid calendar
\* date written dddd-dd-dd.
C20_ReturnsCalendarDates ==
    (DateDone /\ ~IsNone(Val(returned).val))
        => IsCanonical(Val(Val(returned).val))

\* the date a text not of the form dddd-dd-dd spells under the formats, the
\* month-first reading of a slash date before the day-first one, and the one
\* reading there is when a number is written as only a day can be; None
\* when it spells none
Ymd(y, m, d) == [y |-> y, m |-> m, d |-> d]
MonthFirst(y, p, q) ==
    IF ValidDate(y, p, q) THEN Some(Ymd(y, p, q))
    ELSE IF ValidDate(y, q, p) THEN Some(Ymd(y, q, p))
    ELSE None
DateIf(y, m, d) == IF ValidDate(y, m, d) THEN Some(Ymd(y, m, d)) ELSE None
Spelled(t) ==
    CASE t.shape = "slash4" -> MonthFirst(t.c, t.a, t.b)
      [] t.shape = "slash2" -> MonthFirst(Century(t.c), t.a, t.b)
      [] t.shape = "slash4_d2" -> DateIf(t.c, t.a, t.b)
      [] t.shape = "slash2_d2" -> DateIf(Century(t.c), t.a, t.b)
      [] t.shape = "slash4_d1" -> DateIf(t.c, t.b, t.a)
      [] t.shape = "slash2_d1" -> DateIf(Century(t.c), t.b, t.a)
      [] t.shape \in {"ymdslash", "dash1"} ->
             IF ValidDate(t.a, t.b, t.c) THEN Some(Ymd(t.a, t.b, t.c)) ELSE None
      [] t.shape \in {"long_c", "abbr_c", "long", "abbr"} ->
             IF ValidDate(t.c, t.a, t.b) THEN Some(Ymd(t.c, t.a, t.b)) ELSE None
      [] OTHER -> None
NonCanonical ==
    /\ ~IsNone(given)
    /\ Val(given).shape \notin {"canon", "canon_y", "canon_x", "empty"}

\* C21: for a text not of the form dddd-dd-dd, parse_date returns the date the
\* first format that parses it gives, month before day in a slash date, with
\* no request to the service; when no format parses it the service is asked
\* once and its answer is returned only if of the form dddd-dd-dd, else None.
C21_FormatsThenService ==
    (DateDone /\ NonCanonical) =>
        /\ ~IsNone(Spelled(Val(given))) =>
              /\ ~IsNone(Val(returned).val)
              /\ Ymd(Val(Val(returned).val).a, Val(Val(returned).val).b,
                     Val(Val(returned).val).c) = Val(Spelled(Val(given)))
              /\ Val(returned).calls = <<>>
        /\ IsNone(Spelled(Val(given))) =>
              /\ Len(Val(returned).calls) = 1
              /\ Val(returned).val =
                     (IF ~reply.raised /\ reply.text.shape = "canon"
                      THEN Some(reply.text) ELSE None)

C21_Witness ==
    /\ DateDone
    /\ given = Some(DateText("slash4", 1, 2, 2025))
    /\ reply = LLMText(CanonDate(2025, 7, 1))
    /\ Val(returned) = [val |-> Some(CanonDate(2025, 1, 2)), calls |-> <<>>]

(***************************************************************************)
(* Properties of the flexible-date variants                                *)
(***************************************************************************)
\* the base record is built and flexible_dates is set, but the previous or
\* the next day of the outbound or of the return date cannot be computed
ArithmeticFails ==
    /\ C6_Resolves /\ ~IntentBothAirlines /\ Flexible
    /\ \/ ~HasNeighbours(Val(OutResolved))
       \/ ~IsNone(RetResolved) /\ ~HasNeighbours(Val(RetResolved))

RECURSIVE Survivors(_)
Survivors(k) ==
    IF k > Len(SegsOf(intent)) THEN <<>>
    ELSE (IF SegSurvives(k)
          THEN <<Val(SegmentOf(SegsOf(intent)[k], answers.segs[k]).val)>>
          ELSE <<>>) \o Survivors(k + 1)

\* C23: a multi_city build with a surviving segment returns exactly one
\* record, of type 3, without departure_id, arrival_id, outbound_date and
\* return_date, whose multi_city_json is the surviving segments in the order
\* of the intent.
C23_OneMultiCityRecord ==
    (stage = "built" /\ IsMultiCity /\ Survivors(1) # <<>>)
        => /\ Len(out.params_list) = 1
           /\ out.params_list[1].vals["type"] = Some(3)
           /\ \A f \in {"departure_id", "arrival_id", "outbound_date",
                         "return_date"} :
                  out.params_list[1].vals[f] = None
           /\ out.params_list[1].vals["multi_city_json"] = Some(Survivors(1))

(***************************************************************************)
(* Properties of the cities of a trip                                      *)
(***************************************************************************)
\* the cities listed in a comma-joined text
ListedCities(text) ==
    [k \in 1..Len(split(text, ",")) |-> strip(split(text, ",")[k])]
\* the codes cities_to_iatas gives for the cities listed in the text, the
\* service answering resp for each
ListedCodes(text, resp) ==
    cities_to_iatas(
        ListArg([k \in 1..Len(ListedCities(text)) |->
                    Some(ListedCities(text)[k])]),
        [k \in 1..Len(ListedCities(text)) |-> resp]).val
IsCityList(city) == ~IsNone(city) /\ Len(split(Val(city), ",")) > 1

\* C24: when departure_city lists several cities, every record built has as
\* departure_id the comma-join of the codes of every listed city, and nothing
\* is built when one of them does not resolve.
C24_EveryListedCityResolved ==
    (stage = "built" /\ TripBranch /\ IsCityList(DepCity))
        => \A k \in 1..Len(out.params_list) :
              /\ ~IsNone(ListedCodes(Val(DepCity), answers.dep))
              /\ out.params_list[k].vals["departure_id"] =
                     ListedCodes(Val(DepCity), answers.dep)

(***************************************************************************)
(* Properties of the round-trip records                                    *)
(***************************************************************************)
\* C25: every record built with type 1 (round trip), base or variant, has a
\* return_date.
C25_RoundTripHasReturn ==
    stage = "built" =>
        \A k \in 1..Len(out.params_list) :
            out.params_list[k].vals["type"] = Some(1)
                => ~IsNone(out.params_list[k].vals["return_date"])

(***************************************************************************)
(* Properties of two calls racing on one key                               *)
(***************************************************************************)
RaceKey == _generate_cache_key(RecA)
\* the call of instance p has returned a value
Returned(p) == pc[p] = "done" /\ raised[p] = ""
\* the results the provider gave in the two calls
FetchResults == {Val(fetchVal[q]) : q \in {p \in Procs : ~IsNone(fetchVal[p])}}

\* C26: with two calls for equal records racing on a working, empty cache,
\* a call that returns gives the result of its own fetch, or, having made no
\* fetch, the result of the other call's fetch read from the cache; once both
\* calls are over and a fetch has answered, the entry under the key is the
\* result of one of the fetches.
C26_RacingCallsConsistent ==
    /\ \A p \in Procs :
          Returned(p) =>
            /\ ~IsNone(result[p]) /\ Val(result[p]) \in FetchResults
            /\ \/ fetched[p] = 1 /\ result[p] = fetchVal[p]
               \/ /\ fetched[p] = 0 /\ seen[p].st = "blob"
                  /\ \E q \in Procs \ {p} : result[p] = fetchVal[q]
    /\ ((\A p \in Procs : pc[p] = "done") /\ FetchResults # {})
          => /\ ~IsNone(cache[RaceKey])
             /\ \E v \in FetchResults :
                   Val(cache[RaceKey]).blob = json_dumps(v)
    /\ \A p \in Procs : pc[p] # "idle" => _generate_cache_key(params[p]) = RaceKey

\* both calls missed, both fetched, and the provider gave them different
\* results: each returns its own, the store keeps one of the two
C26_Witness ==
    /\ \A p \in Procs : Returned(p) /\ fetched[p] = 1
    /\ params[1] # params[2]
    /\ result[1] = Some("r1") /\ result[2] = Some("r2")
    /\ Val(cache[RaceKey]).blob = json_dumps("r1")

====
